---------------------------- MODULE Spec2Model ----------------------------
(***************************************************************************)
(* A model of the pseudo-3D racing game: the segment-based Road (road.js), *)
(* the Car physics integrator (car.js), the Collision detector             *)
(* (collision.js) and the Game race loop (main.js).                        *)
(*                                                                         *)
(* Numbers.  JavaScript doubles are modelled by scaled integers:           *)
(*   - times (dt, crashTimer, invincibleTimer, raceTime) in milliseconds;  *)
(*   - speed in world units per second;                                    *)
(*   - position and probe distances in 1/1000 world unit, so that          *)
(*     position += speed * dt is exact;                                    *)
(*   - lateral offset x, lateralVelocity, steering, tilt, curve, hill,     *)
(*     hazard lane/width and scenery offsets in 1/1000;                    *)
(*   - seededRandom results in 1/1000000.                                  *)
(* A product with a fractional factor is rounded toward zero (TDiv).       *)
(***************************************************************************)
EXTENDS Integers, Sequences, FiniteSets, TLC

VARIABLES
    road,       \* the Road object
    car,        \* the Car object
    builds,     \* history: per track id, the segment array of its first build
    buildLog,   \* history: the ids of the tracks built so far
    probe,      \* the accessor call in progress on the Road, and its result
    call,       \* history: the last call made on the Car, with the car before it
    game,       \* the Game object
    keys,       \* Input.keys: the set of keys held down
    events,     \* history: the number of keyboard events delivered
    localStorage \* the browser's localStorage: a set of <<key, value>> pairs

vars == <<road, car, builds, buildLog, probe, call, game, keys, events, localStorage>>

\* The variables of the race loop
loopVars == <<game, keys, events, localStorage>>

-----------------------------------------------------------------------------
(* JavaScript values and arithmetic *)

Undefined == [undefined |-> TRUE]
Null == [null |-> TRUE]

Truthy(v) == v # Undefined /\ v # Null

Abs(a) == IF a < 0 THEN -a ELSE a
Sign(a) == IF a > 0 THEN 1 ELSE IF a < 0 THEN -1 ELSE 0
Min(a, b) == IF a < b THEN a ELSE b
Max(a, b) == IF a > b THEN a ELSE b

\* a / b rounded toward zero, b > 0
TDiv(a, b) == IF a >= 0 THEN a \div b ELSE -((-a) \div b)

\* Math.floor(a / b), b > 0
FloorDiv(a, b) == a \div b

\* The JavaScript remainder a % b for b # 0: it takes the sign of the dividend
\* (a % 0 is NaN; the callers test the divisor first)
JsRem(a, b) == IF a >= 0 THEN a % Abs(b) ELSE -((-a) % Abs(b))

\* arr[i] of a JavaScript array held as a sequence: undefined out of range
ArrayGet(arr, i) ==
    IF i \in Int /\ i >= 0 /\ i < Len(arr) THEN arr[i + 1] ELSE Undefined

\* The result of a division of a non-zero number by zero: above every
\* number the program computes
Infinity == 2147483647

\* The result of 0 / 0: a value apart from every number
NaN == -2147483647

\* Number.isFinite(value)
IsFinite(value) == value # NaN /\ value # Infinity /\ value # -Infinity

-----------------------------------------------------------------------------
(* Track definitions (tracks.js): small stand-ins for the authored table *)

Section(e, h, l, c, hl) == [enter |-> e, hold |-> h, leave |-> l, curve |-> c, hill |-> hl]

TrackRamp ==
    [id |-> "ramp", type |-> "asphalt", laps |-> 3,
     sections |-> << Section(10, 20, 10, 4000, 0) >>,
     sceneryTypes |-> << "building", "palm", "barrier", "lamppost" >>,
     hazards |-> << [type |-> "pedestrian", positions |-> << 18, 35 >>,
                     lane |-> 300, width |-> 200] >>]

TrackShort ==
    [id |-> "short", type |-> "asphalt", laps |-> 4,
     sections |-> << Section(2, 2, 2, -3000, 1000), Section(0, 3, 0, 0, 0) >>,
     sceneryTypes |-> << "pine", "rock", "boulder" >>,
     hazards |-> << [type |-> "moose", positions |-> << 2, 3, 4, 5, 6, 50 >>,
                     lane |-> 0, width |-> 0],
                    [type |-> "rock", positions |-> << 7 >>,
                     lane |-> 2600, width |-> 300] >>]

TrackFlat ==
    [id |-> "flat", type |-> "offroad", laps |-> 2,
     sections |-> << Section(0, 10, 0, 0, 0) >>,
     sceneryTypes |-> << >>,
     hazards |-> << >>]

TrackEmpty ==
    [id |-> "empty", type |-> "asphalt", laps |-> 1,
     sections |-> << >>,
     sceneryTypes |-> << "pine" >>,
     hazards |-> << >>]

TrackZero ==
    [id |-> "zero", type |-> "asphalt", laps |-> 1,
     sections |-> << Section(0, 0, 0, 2000, 0) >>,
     sceneryTypes |-> << >>,
     hazards |-> << [type |-> "moose", positions |-> << 0 >>, lane |-> 0, width |-> 300] >>]

\* Sections without an enter or a leave ramp and with a curve or hill target
TrackJump ==
    [id |-> "jump", type |-> "asphalt", laps |-> 1,
     sections |-> << Section(0, 3, 0, 2000, 500), Section(0, 2, 2, -1000, 0),
                     Section(2, 2, 0, 3000, 1000) >>,
     sceneryTypes |-> << >>,
     hazards |-> << >>]

\* The definitions a race is started on: each expands to at least one segment
Tracks == { TrackRamp, TrackShort, TrackFlat }

\* Every definition Road.build can be handed
AnyTracks == Tracks \cup { TrackEmpty, TrackZero, TrackJump }

TrackIds == { t.id : t \in AnyTracks }

-----------------------------------------------------------------------------
(* Road (road.js) *)

segmentLength == 200

\* Math.sin(seed) * 10000 - Math.floor(...) at the seeds placeScenery uses,
\* in 1/1000000
SinTable ==
    0 :> 0 @@ 548 :> 627975 @@ 1004 :> 55748 @@ 1096 :> 549207 @@ 1492 :> 67323 @@
    1644 :> 85690 @@ 1964 :> 501032 @@ 2008 :> 300854 @@ 2192 :> 411300 @@ 2452 :> 146393 @@
    2740 :> 735787 @@ 2984 :> 885017 @@ 3012 :> 889725 @@ 3288 :> 959882 @@ 3836 :> 857963 @@
    3928 :> 970386 @@ 4016 :> 180386 @@ 4384 :> 795181 @@ 4476 :> 987244 @@ 4904 :> 292795 @@
    4932 :> 345087 @@ 5020 :> 324055 @@ 5480 :> 321709 @@ 5892 :> 253028 @@ 5968 :> 454665 @@
    6024 :> 76567 @@ 6028 :> 1722 @@ 6576 :> 428982 @@ 7028 :> 935405 @@ 7124 :> 775345 @@
    7356 :> 681581 @@ 7460 :> 445154 @@ 7672 :> 979096 @@ 7856 :> 15394 @@ 8032 :> 224425 @@
    8220 :> 395921 @@ 8768 :> 410607 @@ 8952 :> 34683 @@ 9036 :> 439858 @@ 9316 :> 411117 @@
    9808 :> 592835 @@ 9820 :> 762253 @@ 9864 :> 883348 @@ 10040 :> 623724 @@ 10412 :> 306731 @@
    10444 :> 438669 @@ 10960 :> 122528 @@ 11044 :> 558634 @@ 11508 :> 590310 @@ 11784 :> 965685 @@
    11936 :> 2670 @@ 12048 :> 264369 @@ 12056 :> 333076 @@ 12260 :> 667130 @@ 12604 :> 302824 @@
    13052 :> 855364 @@ 13152 :> 37948 @@ 13428 :> 517041 @@ 13700 :> 57429 @@ 13748 :> 951074 @@
    14056 :> 716437 @@ 14248 :> 740278 @@ 14712 :> 164805 @@ 14796 :> 45922 @@ 14920 :> 170081 @@
    15060 :> 94385 @@ 15344 :> 736592 @@ 15712 :> 37306 @@ 15892 :> 250701 @@ 16064 :> 393326 @@
    16412 :> 453422 @@ 16440 :> 720824 @@ 16988 :> 376047 @@ 17068 :> 126829 @@ 17164 :> 798148 @@
    17536 :> 52525 @@ 17676 :> 39568 @@ 17904 :> 754081 @@ 18072 :> 310896 @@ 18084 :> 967076 @@
    18632 :> 523143 @@ 19076 :> 297410 @@ 19180 :> 137739 @@ 19396 :> 534866 @@ 19616 :> 612341 @@
    19640 :> 61380 @@ 19728 :> 869026 @@ 20080 :> 263602 @@ 20276 :> 189079 @@ 20824 :> 1940 @@
    20888 :> 636379 @@ 21084 :> 440590 @@ 21372 :> 735199 @@ 21604 :> 633662 @@ 21920 :> 674710 @@
    22068 :> 936556 @@ 22088 :> 743682 @@ 22380 :> 560505 @@ 22468 :> 980212 @@ 23016 :> 476253 @@
    23092 :> 347964 @@ 23564 :> 2635 @@ 23568 :> 852916 @@ 23872 :> 654526 @@ 24096 :> 476054 @@
    24112 :> 216172 @@ 24520 :> 898027 @@ 24660 :> 428570 @@ 25100 :> 826513 @@ 25208 :> 991440 @@
    25364 :> 154436 @@ 25532 :> 56179 @@ 25756 :> 711290 @@ 26104 :> 567685 @@ 26304 :> 884807 @@
    26852 :> 767789 @@ 26856 :> 718265 @@ 26972 :> 110136 @@ 27108 :> 484155 @@ 27400 :> 790668 @@
    27496 :> 580031 @@ 27948 :> 98105 @@ 28112 :> 505709 @@ 28348 :> 822171 @@ 28496 :> 497690 @@
    29044 :> 801098 @@ 29116 :> 587374 @@ 29424 :> 481295 @@ 29460 :> 690099 @@ 29592 :> 916195 @@
    29840 :> 756379 @@ 30120 :> 914137 @@ 30140 :> 342369 @@ 30688 :> 911997 @@ 31124 :> 620967 @@
    31236 :> 659121 @@ 31332 :> 749036 @@ 31424 :> 102594 @@ 31784 :> 351034 @@ 31876 :> 85021 @@
    32128 :> 713943 @@ 32332 :> 290453 @@ 32824 :> 595821 @@ 32880 :> 607925 @@ 33132 :> 251801 @@
    33388 :> 868187 @@ 34136 :> 202760 @@ 34316 :> 826378 @@ 34328 :> 73089 @@ 35140 :> 334661 @@
    35352 :> 951984 @@ 35808 :> 937897 @@ 36144 :> 773932 @@ 36780 :> 450105 @@ 37148 :> 897434 @@
    37300 :> 137797 @@ 37316 :> 469529 @@ 38152 :> 850961 @@ 38792 :> 340938 @@ 39156 :> 377994 @@
    39232 :> 614689 @@ 39280 :> 272832 @@ 40160 :> 120048 @@ 40284 :> 764533 @@ 41164 :> 528723 @@
    41244 :> 906355 @@ 41684 :> 316942 @@ 41776 :> 282283 @@ 42168 :> 248404 @@ 43172 :> 314112 @@
    43208 :> 535279 @@ 43268 :> 443629 @@ 44136 :> 280342 @@ 44176 :> 845261 @@ 44760 :> 613773 @@
    45172 :> 306256 @@ 45180 :> 479516 @@ 46184 :> 532838 @@ 46252 :> 172423 @@ 46588 :> 576801 @@
    47136 :> 830167 @@ 47188 :> 394816 @@ 47744 :> 287925 @@ 48192 :> 990460 @@ 49040 :> 415871 @@
    49100 :> 18692 @@ 49196 :> 973940 @@ 49236 :> 531066 @@ 50200 :> 23422 @@ 50728 :> 684294 @@
    51064 :> 497234 @@ 51204 :> 315847 @@ 51492 :> 910243 @@ 52208 :> 731886 @@ 52220 :> 829114 @@
    53028 :> 202934 @@ 53212 :> 529478 @@ 53712 :> 467716 @@ 53944 :> 123699 @@ 54216 :> 201363 @@
    54992 :> 629792 @@ 55204 :> 392631 @@ 55220 :> 892691 @@ 56224 :> 56487 @@ 56396 :> 175820 @@
    56696 :> 518442 @@ 56956 :> 4530 @@ 57228 :> 368931 @@ 58188 :> 41686 @@ 58232 :> 53607 @@
    58848 :> 272710 @@ 58920 :> 156347 @@ 59236 :> 462236 @@ 59680 :> 260781 @@ 60240 :> 225973 @@
    60884 :> 205269 @@ 61172 :> 804693 @@ 61300 :> 215597 @@ 62664 :> 292675 @@ 62848 :> 972386 @@
    63752 :> 224455 @@ 64156 :> 907718 @@ 64812 :> 505361 @@ 65648 :> 902205 @@ 66204 :> 860459 @@
    66776 :> 118886 @@ 67140 :> 173934 @@ 68632 :> 989411 @@ 68656 :> 553806 @@ 68740 :> 421366 @@
    70124 :> 918241 @@ 70704 :> 989207 @@ 71108 :> 655468 @@ 71616 :> 505948 @@ 72668 :> 50777 @@
    73108 :> 416850 @@ 73560 :> 225050 @@ 74600 :> 389006 @@ 74632 :> 342245 @@ 76012 :> 172780 @@
    76092 :> 113954 @@ 76596 :> 974975 @@ 77584 :> 63479 @@ 78464 :> 604755 @@ 78560 :> 189807 @@
    79076 :> 204919 @@ 80524 :> 709642 @@ 80568 :> 78802 @@ 80916 :> 722959 @@ 82060 :> 768602 @@
    82488 :> 743575 @@ 83368 :> 792774 @@ 83552 :> 483366 @@ 84452 :> 910281 @@ 85044 :> 737496 @@
    85820 :> 584855 @@ 86416 :> 817573 @@ 86536 :> 278335 @@ 88028 :> 663485 @@ 88272 :> 744468 @@
    88380 :> 716432 @@ 89520 :> 633548 @@ 90344 :> 797798 @@ 90724 :> 980463 @@ 92308 :> 875106 @@
    93176 :> 623411 @@ 94272 :> 567984 @@ 95628 :> 500209 @@ 96236 :> 516070 @@ 98080 :> 261576 @@
    98200 :> 828281 @@ 100164 :> 815051 @@ 100532 :> 58127 @@ 102128 :> 205449 @@ 102984 :> 444797 @@
    104092 :> 924042 @@ 105436 :> 255452 @@ 106056 :> 362253 @@ 107888 :> 410907 @@ 108020 :> 576992 @@
    109984 :> 86755 @@ 110340 :> 652132 @@ 111948 :> 143140 @@ 112792 :> 20297 @@ 113912 :> 928174 @@
    115244 :> 122087 @@ 115876 :> 461195 @@ 117696 :> 410060 @@ 117840 :> 844551 @@ 120148 :> 522795 @@
    122600 :> 152180 @@ 125052 :> 308499 @@ 127504 :> 436079 @@ 129956 :> 492486 @@ 132408 :> 684891 @@
    134860 :> 962122 @@ 137312 :> 622242 @@ 139764 :> 443386 @@ 142216 :> 508206 @@ 144668 :> 171762 @@
    147120 :> 54960

\* Simple seeded random for consistent scenery placement, in 1/1000000
seededRandom(seed) == SinTable[seed]

NewSegment(c, h, idx) ==
    [curve |-> c, hill |-> h, index |-> idx,
     sceneryLeft |-> Undefined, sceneryRight |-> Undefined, hazard |-> Undefined]

\* target * (num / den): c = curve * t, h = hill * t with t = num / den
Ramp(target, num, den) ==
    IF den = 0 THEN (IF num = 0 \/ target = 0 THEN NaN ELSE Infinity)
    ELSE TDiv(target * num, den)

\* An enter ramp counted from 1 instead of 0
SectionSegmentRampFromOne(section, i, idx) ==
    IF i < section.enter
    THEN NewSegment(Ramp(section.curve, i + 1, section.enter),
                    Ramp(section.hill, i + 1, section.enter), idx)
    ELSE IF i < section.enter + section.hold
    THEN NewSegment(section.curve, section.hill, idx)
    ELSE NewSegment(Ramp(section.curve, section.leave - (i - section.enter - section.hold),
                         section.leave),
                    Ramp(section.hill, section.leave - (i - section.enter - section.hold),
                         section.leave), idx)

\* An enter phase that takes local index enter as well
SectionSegmentEnterInclusive(section, i, idx) ==
    LET enter == section.enter
        hold == section.hold
        leave == section.leave
    IN  IF i <= enter
        THEN NewSegment(Ramp(section.curve, i, enter), Ramp(section.hill, i, enter), idx)
        ELSE IF i < enter + hold
        THEN NewSegment(section.curve, section.hill, idx)
        ELSE NewSegment(Ramp(section.curve, leave - (i - enter - hold), leave),
                        Ramp(section.hill, leave - (i - enter - hold), leave), idx)

\* One iteration of the inner loop of build: the segment at local index i
SectionSegment(section, i, idx) ==
    LET enter == section.enter
        hold == section.hold
        leave == section.leave
    IN  IF i < enter
        THEN NewSegment(Ramp(section.curve, i, enter), Ramp(section.hill, i, enter), idx)
        ELSE IF i < enter + hold
        THEN NewSegment(section.curve, section.hill, idx)
        ELSE NewSegment(Ramp(section.curve, leave - (i - enter - hold), leave),
                        Ramp(section.hill, leave - (i - enter - hold), leave), idx)

ExpandSection(segs, section) ==
    LET total == section.enter + section.hold + section.leave
    IN  segs \o [i \in 1..total |-> SectionSegment(section, i - 1, Len(segs) + i - 1)]

RECURSIVE ExpandSections(_, _, _)
ExpandSections(segs, sections, k) ==
    IF k > Len(sections) THEN segs
    ELSE ExpandSections(ExpandSection(segs, sections[k]), sections, k + 1)

\* The body of placeScenery's loop for segment i
SceneryAt(seg, i, types) ==
    LET cleared == [seg EXCEPT !.sceneryLeft = Null, !.sceneryRight = Null]
        n == Len(types)
        typeIndex == (seededRandom(i * 251) * n) \div 1000000
        offset == 1200 + (seededRandom(i * 373) * 2) \div 1000
        side == seededRandom(i * 491)
        typeIndex2 == (seededRandom(i * 613) * n) \div 1000000
    IN  IF i % 4 = 0 /\ seededRandom(i * 137) > 300000
        THEN IF side < 400000
             THEN [cleared EXCEPT !.sceneryLeft =
                       [type |-> types[typeIndex + 1], offset |-> -offset]]
             ELSE IF side < 800000
             THEN [cleared EXCEPT !.sceneryRight =
                       [type |-> types[typeIndex + 1], offset |-> offset]]
             ELSE [cleared EXCEPT
                       !.sceneryLeft = [type |-> types[typeIndex + 1], offset |-> -offset],
                       !.sceneryRight = [type |-> types[typeIndex2 + 1],
                                         offset |-> TDiv(offset * 9, 10)]]
        ELSE cleared

placeScenery(segs, trackDef) ==
    LET types == trackDef.sceneryTypes
    IN  IF Len(types) = 0 THEN segs
        ELSE [i \in 1..Len(segs) |-> SceneryAt(segs[i], i - 1, types)]

\* A placement one segment before the listed one
PlaceHazardAtBefore(st, hazard, pos, total) ==
    IF st.threw \/ ~(pos < total) THEN st
    ELSE IF ArrayGet(st.segs, pos) = Undefined THEN [st EXCEPT !.threw = TRUE]
    ELSE [st EXCEPT !.segs[pos].hazard =
              [type |-> hazard.type,
               lane |-> hazard.lane,
               width |-> IF hazard.width = 0 THEN 300 ELSE hazard.width]]

\* this.segments[pos].hazard = {...}: a TypeError when segments[pos] is undefined
PlaceHazardAt(st, hazard, pos, total) ==
    IF st.threw \/ ~(pos < total) THEN st
    ELSE IF ArrayGet(st.segs, pos) = Undefined THEN [st EXCEPT !.threw = TRUE]
    ELSE [st EXCEPT !.segs[pos + 1].hazard =
              [type |-> hazard.type,
               lane |-> hazard.lane,
               width |-> IF hazard.width = 0 THEN 300 ELSE hazard.width]]

RECURSIVE PlaceHazardPositions(_, _, _, _)
PlaceHazardPositions(st, hazard, k, total) ==
    IF k > Len(hazard.positions) THEN st
    ELSE PlaceHazardPositions(PlaceHazardAt(st, hazard, hazard.positions[k], total),
                              hazard, k + 1, total)

RECURSIVE PlaceHazardDefs(_, _, _, _)
PlaceHazardDefs(st, hazardDefs, k, total) ==
    IF k > Len(hazardDefs) THEN st
    ELSE PlaceHazardDefs(PlaceHazardPositions(st, hazardDefs[k], 1, total),
                         hazardDefs, k + 1, total)

placeHazards(segs, trackDef, total) ==
    PlaceHazardDefs([segs |-> segs, threw |-> FALSE], trackDef.hazards, 1, total)

\* A build that keeps pushing onto the previous race's segments
KeepSegments(r) == r.segments

\* this.segments = [] at the start of build
ResetSegments(r) == << >>

\* Road.build(trackDef) applied to the Road object r
build(r, trackDef) ==
    LET expanded == ExpandSections(ResetSegments(r), trackDef.sections, 1)
        total == Len(expanded)
        placed == placeHazards(placeScenery(expanded, trackDef), trackDef, total)
    IN  [segments |-> placed.segs,
         totalSegments |-> total,
         trackLength |-> total * segmentLength,
         name |-> trackDef.id,
         sceneryTypes |-> trackDef.sceneryTypes,
         hazards |-> trackDef.hazards,
         built |-> TRUE,
         threw |-> placed.threw]

\* getSegment without the correction of a negative remainder
getSegmentNoFix(r, position) ==
    IF r.totalSegments = 0 THEN Undefined
    ELSE ArrayGet(r.segments, JsRem(FloorDiv(position, segmentLength * 1000), r.totalSegments))

\* Road.getSegment(position), position in 1/1000 world unit
\* (with totalSegments = 0 the index is NaN and segments[NaN] is undefined)
getSegment(r, position) ==
    LET index == JsRem(FloorDiv(position, segmentLength * 1000), r.totalSegments)
    IN  IF r.totalSegments = 0 THEN Undefined
        ELSE ArrayGet(r.segments, IF index < 0 THEN index + r.totalSegments ELSE index)

\* getSegmentByIndex with a single remainder
getSegmentByIndexSingleRem(r, index) ==
    IF r.totalSegments = 0 THEN Undefined
    ELSE ArrayGet(r.segments, JsRem(index, r.totalSegments))

\* Road.getSegmentByIndex(index)
getSegmentByIndex(r, index) ==
    LET i == JsRem(JsRem(index, r.totalSegments) + r.totalSegments, r.totalSegments)
    IN  IF r.totalSegments = 0 THEN Undefined ELSE ArrayGet(r.segments, i)

\* The Road object before any build
RoadInit ==
    [segments |-> << >>, totalSegments |-> 0, trackLength |-> 0, name |-> "",
     sceneryTypes |-> << >>, hazards |-> << >>, built |-> FALSE, threw |-> FALSE]

-----------------------------------------------------------------------------
(* Specification of the Road alone: builds and accessor calls *)

MaxBuilds == 3
MaxIndex == 45

NoProbe == [op |-> "none", arg |-> 0, result |-> Undefined]

\* Offsets inside one segment, in 1/1000 world unit
InSegment == { 0, 1, 100000, 199999 }

\* No call made yet.  pre is the car before the call, mid the car between
\* update() and crash() in a racing frame, collision the result of check(),
\* steps the calls a frame made in their order, rendered the car handed to
\* Renderer.render, sinceCrash the dt of the updates since the last crash(),
\* sinceRecovery the dt of the driving updates since the last recovery (-1
\* before the first one), odometer the sum of speed * dt over the driving
\* updates
NoCall ==
    [op |-> "none", dt |-> 0, input |-> Undefined, severity |-> "",
     lapCompleted |-> FALSE, pre |-> Undefined, mid |-> Undefined,
     collision |-> Undefined, steps |-> << >>, rendered |-> Undefined,
     calls |-> 0, sinceCrash |-> 0, sinceRecovery |-> -1, odometer |-> 0]

\* sinceRecovery after an update(dt) that took the car from pre to post
SinceRecovery(since, pre, post, dt) ==
    IF pre.crashed THEN (IF post.crashed THEN since ELSE 0)
    ELSE IF since >= 0 THEN since + dt
    ELSE since

\* odometer after an update(dt) that took the car from pre to post
Odometer(odometer, pre, post, dt) ==
    IF pre.crashed THEN odometer ELSE odometer + post.speed * dt

\* The Game object literal (time and lastTime, which feed only the frame's
\* dt and the drawing, and trackName are left out)
GameObject ==
    [state |-> "garage", currentLap |-> 1, totalLaps |-> 3, raceTime |-> 0,
     lapTimes |-> << >>, lapStartTime |-> 0, totalTime |-> 0,
     isNewBest |-> FALSE, countdown |-> 0,
     selectedCar |-> Null, selectedTrack |-> Null]

\* Nothing of the race loop has run
LoopIdle ==
    /\ game = GameObject
    /\ keys = {}
    /\ events = 0
    /\ localStorage = {}

InitRoad ==
    /\ road = RoadInit
    /\ car = Undefined
    /\ call = NoCall
    /\ builds = [id \in TrackIds |-> Undefined]
    /\ buildLog = << >>
    /\ probe = NoProbe
    /\ LoopIdle

\* Road.build(trackDef)
RoadBuild(trackDef) ==
    /\ Len(buildLog) < MaxBuilds
    /\ road' = build(road, trackDef)
    /\ builds' = IF builds[trackDef.id] = Undefined
                 THEN [builds EXCEPT ![trackDef.id] = [segments |-> road'.segments]]
                 ELSE builds
    /\ buildLog' = Append(buildLog, trackDef.id)
    /\ probe' = NoProbe
    /\ UNCHANGED <<car, call, loopVars>>

\* A call of Road.getSegment(position) on the built road
CallGetSegment ==
    /\ road.built
    /\ probe = NoProbe
    /\ \E k \in -MaxIndex..MaxIndex, f \in InSegment :
         LET position == k * segmentLength * 1000 + f
         IN  probe' = [op |-> "getSegment", arg |-> position,
                       result |-> getSegment(road, position)]
    /\ UNCHANGED <<road, car, builds, buildLog, call, loopVars>>

\* A call of Road.getSegmentByIndex(index) on the built road
CallGetSegmentByIndex ==
    /\ road.built
    /\ probe = NoProbe
    /\ \E k \in -MaxIndex..MaxIndex :
         probe' = [op |-> "getSegmentByIndex", arg |-> k,
                   result |-> getSegmentByIndex(road, k)]
    /\ UNCHANGED <<road, car, builds, buildLog, call, loopVars>>

\* The caller takes the accessor's result
Return ==
    /\ probe # NoProbe
    /\ probe' = NoProbe
    /\ UNCHANGED <<road, car, builds, buildLog, call, loopVars>>

BuildRaceTrack == \E trackDef \in Tracks : RoadBuild(trackDef)

BuildAnyTrack == \E trackDef \in AnyTracks : RoadBuild(trackDef)

NextRoad == BuildRaceTrack \/ CallGetSegment \/ CallGetSegmentByIndex \/ Return

SpecRoad == InitRoad /\ [][NextRoad]_vars

NextBuild == BuildAnyTrack \/ CallGetSegment \/ CallGetSegmentByIndex \/ Return

SpecBuild == InitRoad /\ [][NextBuild]_vars

-----------------------------------------------------------------------------
(* Claims about the Road *)

\* k mod n with the result in 0..n-1
NormalizedIndex(k, n) == k - n * (k \div n)

\* C1: on every built track and for every integer k, positive, zero or
\* negative, getSegmentByIndex(k) is defined and is the segment whose index
\* field is k mod totalSegments normalized into 0..totalSegments-1, the same
\* segment getSegmentByIndex returns for that normalized index.
C1_WrapByIndex ==
    probe.op = "getSegmentByIndex" =>
        /\ probe.result # Undefined
        /\ probe.result.index = NormalizedIndex(probe.arg, road.totalSegments)
        /\ probe.result =
             getSegmentByIndex(road, NormalizedIndex(probe.arg, road.totalSegments))

C1_Witness ==
    /\ probe.op = "getSegmentByIndex"
    /\ probe.arg < -road.totalSegments
    /\ probe.result # Undefined
    /\ probe.result.index # 0
    /\ probe.result.index = NormalizedIndex(probe.arg, road.totalSegments)

\* C2: on every built track and for every distance d, negative and many laps
\* long included, getSegment(d) is the segment at index
\* floor(d / segmentLength) mod totalSegments normalized into
\* 0..totalSegments-1, never an out-of-bounds (undefined) result.
C2_WrapByDistance ==
    probe.op = "getSegment" =>
        /\ probe.result # Undefined
        /\ probe.result.index =
             NormalizedIndex(FloorDiv(probe.arg, segmentLength * 1000), road.totalSegments)
        /\ probe.result = road.segments[probe.result.index + 1]

C2_Witness ==
    /\ probe.op = "getSegment"
    /\ probe.arg < -2 * road.trackLength * 1000
    /\ probe.arg % (segmentLength * 1000) # 0
    /\ probe.result # Undefined
    /\ probe.result.index =
         NormalizedIndex(FloorDiv(probe.arg, segmentLength * 1000), road.totalSegments)

\* C3: Road.build rejects a track definition whose section list is empty or
\* expands to zero segments, so that no built track has totalSegments = 0.
C3_EmptyTrackRejected ==
    (road.built /\ road.totalSegments = 0) => road.threw

\* The curvature of the section {enter:10, hold:20, leave:10, curve:4, hill:0}
\* at local index i, on the road built from it
RampCurve(i) == road.segments[i + 1].curve

RampMonotonic ==
    /\ \A i \in 0..8 : RampCurve(i) <= RampCurve(i + 1)
    /\ \A i \in 10..28 : RampCurve(i) = RampCurve(i + 1)
    /\ \A i \in 30..38 : RampCurve(i) >= RampCurve(i + 1)

\* C8 as stated: curvature 0 at local index 0, 4 at local index 10,
\* approximately 0 (within one ramp step, 0.4) at local index 29, monotonic
\* within each phase.
C8_RampAsStated ==
    road.name = "ramp" =>
        /\ RampCurve(0) = 0
        /\ RampCurve(10) = 4000
        /\ Abs(RampCurve(29)) <= 400
        /\ RampMonotonic

\* C8 amended: curvature 0 at local index 0, 4 at local index 10 (start of
\* hold), 4 at local index 29 (end of hold), 0.4 at local index 39 (end of
\* leave), monotonic within each of the enter, hold and leave phases.
C8_Ramp ==
    road.name = "ramp" =>
        /\ Len(road.segments) = 40
        /\ RampCurve(0) = 0
        /\ RampCurve(10) = 4000
        /\ RampCurve(29) = 4000
        /\ RampCurve(39) = 400
        /\ RampMonotonic

C8_Witness ==
    /\ road.name = "ramp"
    /\ road.built
    /\ RampCurve(5) = 2000
    /\ RampCurve(30) = 4000
    /\ RampCurve(35) = 2000

\* C9: whenever a track definition is built again, whatever was built in
\* between, the segment array (curve, hill, index, obstacles and hazard of
\* every segment) is identical to the one its first build produced.
C9_Deterministic ==
    (road.built /\ builds[road.name] # Undefined) =>
        road.segments = builds[road.name].segments

C9_Witness ==
    /\ Len(buildLog) = 3
    /\ buildLog[1] = "ramp"
    /\ buildLog[2] = "short"
    /\ buildLog[3] = "ramp"
    /\ road.segments = builds["ramp"].segments
    /\ road.segments[9].sceneryLeft # Null
    /\ road.segments[19].hazard # Undefined

\* C24: build divides by no zero-length ramp: every segment of every built
\* road has a finite curve and hill, and the sections {0,3,0}, {0,2,2} and
\* {2,2,0} with non-zero targets expand without error into 11 segments
\* whose hold segments carry the full target from the first one (enter 0)
\* and up to the last one (leave 0)
C24_ZeroLengthRamp ==
    /\ \A k \in 1..Len(road.segments) :
          IsFinite(road.segments[k].curve) /\ IsFinite(road.segments[k].hill)
    /\ road.name = "jump" =>
          /\ ~road.threw
          /\ [k \in 1..Len(road.segments) |-> road.segments[k].curve] =
                 << 2000, 2000, 2000, -1000, -1000, -1000, -500, 0, 1500, 3000, 3000 >>
          /\ [k \in 1..Len(road.segments) |-> road.segments[k].hill] =
                 << 500, 500, 500, 0, 0, 0, 0, 0, 500, 1000, 1000 >>

\* The road built from the sections without ramps
C24_Witness ==
    /\ road.built
    /\ road.name = "jump"
    /\ road.totalSegments = 11
    /\ road.segments[1].curve = 2000
    /\ road.segments[11].hill = 1000

\* The track definition a road was built from
TrackOf(name) == CHOOSE t \in AnyTracks : t.id = name

\* The descriptors of a definition that list segment index k
ListedAt(trackDef, k) ==
    { d \in 1..Len(trackDef.hazards) :
        \E j \in 1..Len(trackDef.hazards[d].positions) :
            trackDef.hazards[d].positions[j] = k }

\* The reference placeHazards writes for a descriptor (a descriptor without
\* a width, held as width 0, gets 0.3)
HazardRef(hazard) ==
    [type |-> hazard.type, lane |-> hazard.lane,
     width |-> IF hazard.width = 0 THEN 300 ELSE hazard.width]

-----------------------------------------------------------------------------
(* Cars (cars.js) *)

CarDef(i, ts, ac, hd, off) ==
    [id |-> i, topSpeed |-> ts, acceleration |-> ac, handling |-> hd, offRoad |-> off]

Cars == { CarDef("twin_mill", 9, 7, 5, 3), CarDef("porsche_dakar", 7, 6, 7, 9) }

-----------------------------------------------------------------------------
(* Car (car.js).  centrifugal is held in 1/100000, the grip factor in       *)
(* 1/10000, spinAngle in 1/1000, offRoadDrag in 1/100.  The cosmetic        *)
(* bounce/bounceSpeed pair is fed by Math.random() and read only by the     *)
(* sprite drawing: the record holds of it whether it was fed since it was   *)
(* last set to 0 (bounced).                                                 *)

\* The Car object literal
CarObject ==
    [position |-> 0, x |-> 0, speed |-> 0,
     maxSpeed |-> 12000, accel |-> 8000, braking |-> 12000, decel |-> 5000,
     steerSpeed |-> 3000, centrifugal |-> 30000, offRoadDrag |-> 96,
     tilt |-> 0, lateralVelocity |-> 0, steering |-> 0,
     crashed |-> FALSE, crashTimer |-> 0, spinAngle |-> 0,
     explosionTriggered |-> FALSE, invincibleTimer |-> 0,
     bounced |-> FALSE,
     bumpers |-> TRUE, stats |-> Null, trackType |-> "asphalt"]

\* 20 * getEffectiveStat(statName): an integer for every rating
getEffectiveStat20(c, statName) ==
    IF c.stats = Null THEN 100
    ELSE LET base == IF c.stats[statName] = 0 THEN 5 ELSE c.stats[statName]
             offRoad == IF c.stats.offRoad = 0 THEN 5 ELSE c.stats.offRoad
         IN  IF c.trackType = "offroad" THEN base * (10 + offRoad) ELSE base * 20

\* An init() that leaves the crash state and the timers as they are
initKeepCrash(c, carDef, trackType) ==
    LET reset == [c EXCEPT !.position = 0, !.x = 0, !.speed = 0, !.tilt = 0,
                           !.bounced = FALSE,
                           !.steering = 0, !.lateralVelocity = 0,
                           !.stats = carDef, !.trackType = trackType]
    IN  IF carDef = Null THEN reset
        ELSE [reset EXCEPT
                 !.maxSpeed = 8000 + 40 * getEffectiveStat20(reset, "topSpeed"),
                 !.accel = 4000 + 40 * getEffectiveStat20(reset, "acceleration"),
                 !.steerSpeed = 2000 + 15 * getEffectiveStat20(reset, "handling"),
                 !.centrifugal = 40000 - 125 * getEffectiveStat20(reset, "handling")]

\* Car.init(carDef, trackType)
init(c, carDef, trackType) ==
    LET reset == [c EXCEPT !.position = 0, !.x = 0, !.speed = 0, !.tilt = 0,
                           !.bounced = FALSE,
                           !.steering = 0, !.lateralVelocity = 0,
                           !.crashed = FALSE, !.crashTimer = 0, !.spinAngle = 0,
                           !.explosionTriggered = FALSE, !.invincibleTimer = 0,
                           !.stats = carDef, !.trackType = trackType]
    IN  IF carDef = Null THEN reset
        ELSE [reset EXCEPT
                 !.maxSpeed = 8000 + 40 * getEffectiveStat20(reset, "topSpeed"),
                 !.accel = 4000 + 40 * getEffectiveStat20(reset, "acceleration"),
                 !.steerSpeed = 2000 + 15 * getEffectiveStat20(reset, "handling"),
                 !.centrifugal = 40000 - 125 * getEffectiveStat20(reset, "handling")]

\* get speedMPH: Math.round(Math.abs(this.speed) / 80)
speedMPH(c) == (Abs(c.speed) + 40) \div 80

\* A crash() in which a spin keeps the full speed
crashKeepSpeed(c, severity) ==
    [c EXCEPT !.crashed = TRUE,
              !.crashTimer = IF severity = "explode" THEN 2500 ELSE 1500,
              !.explosionTriggered = (severity = "explode"),
              !.spinAngle = 0,
              !.speed = IF severity = "spin" THEN c.speed ELSE 0]

\* A crash() that gives every crash the short timer
crashShortTimer(c, severity) ==
    [c EXCEPT !.crashed = TRUE,
              !.crashTimer = 1500,
              !.explosionTriggered = (severity = "explode"),
              !.spinAngle = 0,
              !.speed = IF severity = "spin" THEN TDiv(c.speed * 3, 10) ELSE 0]

\* Car.crash(severity)
crash(c, severity) ==
    [c EXCEPT !.crashed = TRUE,
              !.crashTimer = IF severity = "explode" THEN 2500 ELSE 1500,
              !.explosionTriggered = (severity = "explode"),
              !.spinAngle = 0,
              !.speed = IF severity = "spin" THEN TDiv(c.speed * 3, 10) ELSE 0]

\* An updateCrash() that gives half a second of invincibility
updateCrashShortInvincible(c, dt) ==
    LET t == [c EXCEPT !.crashTimer = c.crashTimer - dt,
                       !.spinAngle = c.spinAngle + dt * 8,
                       !.x = TDiv(c.x * 97, 100)]
    IN  IF t.crashTimer <= 0
        THEN [t EXCEPT !.crashed = FALSE, !.spinAngle = 0,
                       !.explosionTriggered = FALSE, !.lateralVelocity = 0,
                       !.speed = IF t.speed < 1000 THEN 1000 ELSE t.speed,
                       !.x = IF Abs(t.x) > 800 THEN Sign(t.x) * 600 ELSE t.x,
                       !.invincibleTimer = 500]
        ELSE t

\* An updateCrash() that lets the wreck coast on at its speed
updateCrashCoasting(c, dt) ==
    LET t == [c EXCEPT !.crashTimer = c.crashTimer - dt,
                       !.spinAngle = c.spinAngle + dt * 8,
                       !.x = TDiv(c.x * 97, 100),
                       !.position = c.position + c.speed * dt]
    IN  IF t.crashTimer <= 0
        THEN [t EXCEPT !.crashed = FALSE, !.spinAngle = 0,
                       !.explosionTriggered = FALSE, !.lateralVelocity = 0,
                       !.speed = IF t.speed < 1000 THEN 1000 ELSE t.speed,
                       !.x = IF Abs(t.x) > 800 THEN Sign(t.x) * 600 ELSE t.x,
                       !.invincibleTimer = 1000]
        ELSE t

\* Car.updateCrash(dt)
updateCrash(c, dt) ==
    LET t == [c EXCEPT !.crashTimer = c.crashTimer - dt,
                       !.spinAngle = c.spinAngle + dt * 8,
                       !.x = TDiv(c.x * 97, 100)]
    IN  IF t.crashTimer <= 0
        THEN [t EXCEPT !.crashed = FALSE, !.spinAngle = 0,
                       !.explosionTriggered = FALSE, !.lateralVelocity = 0,
                       !.speed = IF t.speed < 1000 THEN 1000 ELSE t.speed,
                       !.x = IF Abs(t.x) > 800 THEN Sign(t.x) * 600 ELSE t.x,
                       !.invincibleTimer = 1000]
        ELSE t

\* Acceleration / braking / reverse (before the clamp)
Throttle(c, dt, input) ==
    IF input.up
    THEN IF c.speed < 0 THEN c.speed + TDiv(c.braking * dt, 1000)
         ELSE c.speed + TDiv(c.accel * dt, 1000)
    ELSE IF input.down
    THEN IF c.speed > 100 THEN c.speed - TDiv(c.braking * dt, 1000)
         ELSE c.speed - TDiv(c.accel * 4 * dt, 10000)
    ELSE IF c.speed > 0 THEN Max(0, c.speed - TDiv(c.decel * dt, 1000))
    ELSE IF c.speed < 0 THEN Min(0, c.speed + TDiv(c.decel * dt, 1000))
    ELSE c.speed

\* A clamp that lets every speed through
ClampSpeedNone(c, speed) == speed

\* Clamp speed (reverse caps at 30% of max)
ClampSpeed(c, speed) == Max(-TDiv(c.maxSpeed * 3, 10), Min(speed, c.maxSpeed))

\* A steering curve that starts at 0
steerCurveFromZero(speedPercent) ==
    IF speedPercent < 250 THEN speedPercent * 4
    ELSE 1000 - TDiv(Max(0, speedPercent - 700) * 6, 10)

\* steerCurve as a function of speedPercent, both in 1/1000
steerCurve(speedPercent) ==
    IF speedPercent < 250 THEN 300 + TDiv(speedPercent * 28, 10)
    ELSE 1000 - TDiv(Max(0, speedPercent - 700) * 6, 10)

\* base^n in 1/10000
RECURSIVE Pow(_, _)
Pow(base, n) == IF n <= 0 THEN 10000 ELSE TDiv(base * Pow(base, n - 1), 10000)

\* Math.pow(gripDamping, dt * 60) in 1/10000, dt a multiple of 50 ms
GripFactor(c, dt) == Pow(8800 - 4 * getEffectiveStat20(c, "handling"), (dt * 3) \div 50)

\* A move by the speed the car had when update() was entered
AdvanceByOldSpeed(c, speed, dt) == c.position + c.speed * dt

\* Move forward (or backward): this.position += this.speed * dt
Advance(c, speed, dt) == c.position + speed * dt

\* A lap signal on either wrap
LapCompletedOnAnyWrap(position, r) ==
    position >= r.trackLength * 1000 \/ position < 0

\* Wrap around track (forward): this.position >= road.trackLength
LapCompleted(position, r) == position >= r.trackLength * 1000

\* Car.update while driving, up to the visual tilt: the fields as they
\* stand when the bumpers test is reached
beforeBumpers(c, dt, r, input) ==
    LET invincibleTimer == IF c.invincibleTimer > 0 THEN c.invincibleTimer - dt
                           ELSE c.invincibleTimer
        speed1 == ClampSpeed(c, Throttle(c, dt, input))
        absSpeed == Abs(speed1)
        speedPercent == TDiv(absSpeed * 1000, c.maxSpeed)
        targetSteering == IF input.right THEN 1000 ELSE IF input.left THEN -1000 ELSE 0
        steerRate == IF targetSteering # 0 THEN 8 ELSE 12
        steering == c.steering + TDiv((targetSteering - c.steering) * steerRate * dt, 1000)
        steerForce == TDiv(TDiv(steering * c.steerSpeed, 1000) * steerCurve(speedPercent), 1000)
        segment == getSegment(r, c.position)
        curveForce ==
            IF Truthy(segment) /\ absSpeed > 0
            THEN TDiv(TDiv(segment.curve * c.centrifugal, 100000)
                      * TDiv(speedPercent * speedPercent, 1000) * 3, 1000)
            ELSE 0
        lateral1 == c.lateralVelocity + TDiv((steerForce + curveForce) * dt, 1000)
        lateral2 == TDiv(lateral1 * GripFactor(c, dt), 10000)
        x1 == IF absSpeed > 10
              THEN c.x + TDiv(lateral2 * (IF speed1 >= 0 THEN 1 ELSE -1) * dt, 1000)
              ELSE c.x
        scrub == TDiv(Min(12000, (Abs(lateral2) - 500) * 4) * speedPercent, 1000)
        speed2 == IF Abs(lateral2) > 500 /\ speed1 > 0
                  THEN speed1 - TDiv(speed1 * scrub, 1000000)
                  ELSE speed1
        totalTilt == TDiv(steering * Max(500, speedPercent), 1000) + TDiv(lateral2 * 15, 100)
        clampedTilt == Max(-1300, Min(1300, totalTilt))
        tilt == c.tilt + TDiv((clampedTilt - c.tilt) * 10 * dt, 1000)
    IN  [c EXCEPT !.invincibleTimer = invincibleTimer, !.speed = speed2,
                  !.steering = steering, !.lateralVelocity = lateral2,
                  !.x = x1, !.tilt = tilt]

\* Bumpers that never stop the car
hitsBumperNever(c, x) == FALSE

\* if (this.bumpers) { if (Math.abs(this.x) > 1.0) {
hitsBumper(c, x) == c.bumpers /\ Abs(x) > 1000

\* A wall that stops the lateral velocity dead
bounceDead(lateralVelocity) == 0

\* Bounce back: this.lateralVelocity *= -0.3
bounceBack(lateralVelocity) == TDiv(lateralVelocity * (-3), 10)

\* Car.update(dt, road, input) while driving: the car and the returned flag
afterBumpers(c, before, dt, r) ==
    LET bump == hitsBumper(c, before.x)
        x2 == IF bump THEN Sign(before.x) * 1000 ELSE before.x
        lateral3 == IF bump THEN bounceBack(before.lateralVelocity)
                    ELSE before.lateralVelocity
        speed3 == IF bump THEN TDiv(before.speed * 93, 100) ELSE before.speed
        isOffRoad == Abs(x2) > 1000
        speed4 == IF isOffRoad THEN TDiv(speed3 * c.offRoadDrag, 100) ELSE speed3
        position == Advance(c, speed4, dt)
        lap == LapCompleted(position, r)
        wrapped == IF lap THEN position - r.trackLength * 1000
                   ELSE IF position < 0 THEN position + r.trackLength * 1000
                   ELSE position
    IN  [car |-> [before EXCEPT !.speed = speed4, !.lateralVelocity = lateral3,
                                !.x = x2, !.position = wrapped,
                                !.bounced = before.bounced \/ bump \/ isOffRoad],
         lapCompleted |-> lap]

\* Car.update(dt, road, input), lines 88-219: the driving branch
updateDriving(c, dt, r, input) ==
    afterBumpers(c, beforeBumpers(c, dt, r, input), dt, r)

\* Car.update(dt, road, input)
update(c, dt, r, input) ==
    IF c.crashed THEN [car |-> updateCrash(c, dt), lapCompleted |-> FALSE]
    ELSE updateDriving(c, dt, r, input)

-----------------------------------------------------------------------------
(* Collision (collision.js) *)

Outcome(t, s) == [type |-> t, severity |-> s]

\* The scenery test of one side: an outcome or Null (fall through)
SceneryHit(c, scenery) ==
    IF Truthy(scenery) /\ Abs(c.x - scenery.offset) < 150 + 200
    THEN IF speedMPH(c) > 60 THEN Outcome("scenery", "explode")
         ELSE IF speedMPH(c) > 20 THEN Outcome("scenery", "spin")
         ELSE Null
    ELSE Null

\* A hazard test without the slow nudge-through
HazardHitAtAnySpeed(c, segment) ==
    IF Truthy(segment.hazard) /\ Abs(c.x - segment.hazard.lane) < segment.hazard.width + 150
    THEN IF speedMPH(c) > 100 THEN Outcome(segment.hazard.type, "explode")
         ELSE Outcome(segment.hazard.type, "spin")
    ELSE Null

\* The hazard test: an outcome or Null (fall through)
HazardHit(c, segment) ==
    IF Truthy(segment.hazard) /\ Abs(c.x - segment.hazard.lane) < segment.hazard.width + 150
    THEN IF speedMPH(c) > 100 THEN Outcome(segment.hazard.type, "explode")
         ELSE IF speedMPH(c) > 40 THEN Outcome(segment.hazard.type, "spin")
         ELSE Null
    ELSE Null

\* A check() that tests the hazard before the barrier
checkHazardFirst(c, r) ==
    LET segment == getSegment(r, c.position)
    IN  IF c.crashed THEN Null
        ELSE IF c.invincibleTimer > 0 THEN Null
        ELSE IF ~Truthy(segment) THEN Null
        ELSE IF HazardHit(c, segment) # Null THEN HazardHit(c, segment)
        ELSE IF Abs(c.x) > 2500
        THEN Outcome("barrier", IF speedMPH(c) > 80 THEN "explode" ELSE "spin")
        ELSE IF SceneryHit(c, segment.sceneryLeft) # Null
        THEN SceneryHit(c, segment.sceneryLeft)
        ELSE SceneryHit(c, segment.sceneryRight)

\* A check() without the gate on an invincible vehicle
checkWhileInvincible(c, r) ==
    LET segment == getSegment(r, c.position)
    IN  IF c.crashed THEN Null
        ELSE IF ~Truthy(segment) THEN Null
        ELSE IF Abs(c.x) > 2500
        THEN Outcome("barrier", IF speedMPH(c) > 80 THEN "explode" ELSE "spin")
        ELSE IF HazardHit(c, segment) # Null THEN HazardHit(c, segment)
        ELSE IF SceneryHit(c, segment.sceneryLeft) # Null
        THEN SceneryHit(c, segment.sceneryLeft)
        ELSE SceneryHit(c, segment.sceneryRight)

\* A check() without the gate on a crashed vehicle
checkWhileCrashed(c, r) ==
    LET segment == getSegment(r, c.position)
    IN  IF c.invincibleTimer > 0 THEN Null
        ELSE IF ~Truthy(segment) THEN Null
        ELSE IF Abs(c.x) > 2500
        THEN Outcome("barrier", IF speedMPH(c) > 80 THEN "explode" ELSE "spin")
        ELSE IF HazardHit(c, segment) # Null THEN HazardHit(c, segment)
        ELSE IF SceneryHit(c, segment.sceneryLeft) # Null
        THEN SceneryHit(c, segment.sceneryLeft)
        ELSE SceneryHit(c, segment.sceneryRight)

\* Collision.check(car, road, canvas)
check(c, r) ==
    LET segment == getSegment(r, c.position)
    IN  IF c.crashed THEN Null
        ELSE IF c.invincibleTimer > 0 THEN Null
        ELSE IF ~Truthy(segment) THEN Null
        ELSE IF Abs(c.x) > 2500
        THEN Outcome("barrier", IF speedMPH(c) > 80 THEN "explode" ELSE "spin")
        ELSE IF HazardHit(c, segment) # Null THEN HazardHit(c, segment)
        ELSE IF SceneryHit(c, segment.sceneryLeft) # Null
        THEN SceneryHit(c, segment.sceneryLeft)
        ELSE SceneryHit(c, segment.sceneryRight)

-----------------------------------------------------------------------------
(* Specification of the Car and the Collision detector called directly:    *)
(* a vehicle in some driving state, then any calls of update() and crash() *)

MaxCalls == 4

Input(u, d, l, r) == [up |-> u, down |-> d, left |-> l, right |-> r]

Inputs ==
    { Input(FALSE, FALSE, FALSE, FALSE), Input(TRUE, FALSE, FALSE, FALSE),
      Input(FALSE, TRUE, FALSE, FALSE), Input(TRUE, FALSE, FALSE, TRUE),
      Input(FALSE, TRUE, TRUE, FALSE) }

NoInput == Input(FALSE, FALSE, FALSE, FALSE)

\* Frame times in ms.  The driving integrator is called with the small one
\* only (an explicit Euler step, stable for small steps)
DrivingDts == { 100 }
CrashedDts == { 100, 1000 }
CatchUpDts == { 1000 }

\* A vehicle placed on the track: position, speed, x, lateralVelocity
Place(c, p, s, lx, lv) ==
    [c EXCEPT !.position = p, !.speed = s, !.x = lx, !.lateralVelocity = lv]

\* Driving states of a car c: at rest on the start line, just before the
\* finish line, near either speed limit, sliding toward the road edge, and
\* (without bumpers) sliding toward the barrier
Placements(c, r) ==
    { c,
      Place(c, r.trackLength * 1000 - 10000, 200, 0, 0),
      Place(c, 500000, c.maxSpeed - 200, 0, 0),
      Place(c, 100000, 100 - TDiv(c.maxSpeed * 3, 10), 0, 0),
      Place(c, 700000, 6000, 950, 900) }
    \cup (IF c.bumpers THEN {} ELSE { Place(c, 700000, 7000, 2480, 900) })

InitCar ==
    /\ \E trackDef \in { TrackFlat, TrackShort } : road = build(RoadInit, trackDef)
    /\ \E b \in BOOLEAN, carDef \in Cars \cup { Null } :
         car \in Placements(init([CarObject EXCEPT !.bumpers = b], carDef, "asphalt"), road)
    /\ call = NoCall
    /\ builds = [id \in TrackIds |-> Undefined]
    /\ buildLog = << >>
    /\ probe = NoProbe
    /\ LoopIdle

\* Car.update(dt, road, input).  The calls are bounded, but a crash is always
\* played to its end (in large steps)
CallUpdate ==
    /\ \E dt \in (IF car.crashed THEN CrashedDts ELSE DrivingDts), input \in Inputs :
         /\ \/ call.calls < MaxCalls
            \/ car.crashed /\ dt \in CatchUpDts /\ input = NoInput
         /\ \E out \in { update(car, dt, road, input) } :
              /\ car' = out.car
              /\ call' = [op |-> "update", dt |-> dt, input |-> input,
                     severity |-> call.severity,
                     lapCompleted |-> out.lapCompleted,
                     pre |-> car, mid |-> Undefined, collision |-> Undefined,
                     steps |-> << "update" >>, rendered |-> Undefined,
                     calls |-> call.calls + 1,
                     sinceCrash |-> IF car.crashed THEN call.sinceCrash + dt ELSE 0,
                     sinceRecovery |->
                         SinceRecovery(call.sinceRecovery, car, out.car, dt),
                     odometer |-> Odometer(call.odometer, car, out.car, dt)]
    /\ UNCHANGED <<road, builds, buildLog, probe, loopVars>>

\* Car.crash(severity) on a driving vehicle
CallCrash ==
    /\ call.calls < MaxCalls
    /\ ~car.crashed
    /\ \E severity \in { "spin", "explode" } :
         /\ car' = crash(car, severity)
         /\ call' = [op |-> "crash", dt |-> 0, input |-> Undefined,
                     severity |-> severity, lapCompleted |-> FALSE,
                     pre |-> car, mid |-> Undefined, collision |-> Undefined,
                     steps |-> << "crash" >>, rendered |-> Undefined,
                     calls |-> call.calls + 1, sinceCrash |-> 0,
                     sinceRecovery |-> call.sinceRecovery,
                     odometer |-> call.odometer]
    /\ UNCHANGED <<road, builds, buildLog, probe, loopVars>>

NextCar == CallUpdate \/ CallCrash

SpecCar == InitCar /\ [][NextCar]_vars

\* The caller of update() is the frame loop, which keeps running: a crashed
\* car keeps being updated
SpecCarFair == SpecCar /\ WF_vars(car.crashed /\ CallUpdate)

-----------------------------------------------------------------------------
(* Claims about the Car and the Collision detector *)

\* C4: after every update() and crash(), in any input combination and across
\* crash and recovery, -0.3 * maxSpeed <= speed <= maxSpeed
C4_SpeedClamp ==
    /\ car.speed <= car.maxSpeed
    /\ car.speed * 10 >= -3 * car.maxSpeed

\* An update with only accelerate held has just been cut off at maxSpeed
C4_Witness ==
    /\ call.op = "update"
    /\ ~call.pre.crashed
    /\ call.input = Input(TRUE, FALSE, FALSE, FALSE)
    /\ call.pre.speed + TDiv(call.pre.accel * call.dt, 1000) > car.maxSpeed
    /\ car.speed = car.maxSpeed

\* C5: check() returns null whenever the vehicle is crashed or invincible,
\* whatever its lateral offset, speed and segment
C5_CollisionGated ==
    (car.crashed \/ car.invincibleTimer > 0) => check(car, road) = Null

\* A crashed vehicle beyond the barrier
C5_Witness ==
    /\ car.crashed
    /\ Abs(car.x) > 2500
    /\ Truthy(getSegment(road, car.position))

\* C6: crash('explode') on a driving vehicle sets crashed and speed 0; the
\* vehicle leaves the crash under repeated updates, not before 2.5 s of dt
\* have accumulated, and then has crashed = false, speed >= 1000 and
\* invincibleTimer > 0
C6_Exploded ==
    (call.op = "crash" /\ call.severity = "explode")
        => (car.crashed /\ car.speed = 0)

C6_Recovered ==
    (call.op = "update" /\ call.pre.crashed /\ ~car.crashed /\ call.severity = "explode")
        => (call.sinceCrash >= 2500 /\ car.speed >= 1000 /\ car.invincibleTimer > 0)

C6_CrashLifecycle ==
    /\ [](C6_Exploded /\ C6_Recovered)
    /\ (car.crashed /\ call.severity = "explode") ~> ~car.crashed

\* The update that ends an explode crash
C6_Witness ==
    /\ call.op = "update"
    /\ call.pre.crashed
    /\ ~car.crashed
    /\ call.severity = "explode"
    /\ call.sinceCrash >= 2500

\* One update() with dt = 0.1 of a driving vehicle at position 1990 with
\* speed 200 on a track of 10 segments
C7_Case ==
    /\ call.op = "update"
    /\ road.totalSegments = 10
    /\ road.trackLength = 2000
    /\ call.dt = 100
    /\ ~call.pre.crashed
    /\ call.pre.position = 1990000
    /\ call.pre.speed = 200

\* C7 as stated: the call returns lapCompleted = true and ends at position 10
C7_LapSignalAsStated ==
    C7_Case => (call.lapCompleted /\ car.position = 10000)

\* C7: the call moves the vehicle by the speed it has after the call's own
\* speed integration: with accelerate held on the default car the speed
\* becomes 1000, the call returns true and ends at position 90; with no key
\* held the vehicle stops at 1990 and the call returns false
C7_LapSignal ==
    C7_Case =>
        /\ call.lapCompleted = (1990000 + car.speed * 100 >= 2000000)
        /\ car.position = (1990000 + car.speed * 100) % 2000000
        /\ (call.input.up /\ call.pre.accel = 8000)
               => (car.speed = 1000 /\ call.lapCompleted /\ car.position = 90000)
        /\ (~call.input.up /\ ~call.input.down)
               => (car.speed = 0 /\ ~call.lapCompleted /\ car.position = 1990000)

\* The default car crossing the line with accelerate held
C7_Witness ==
    /\ C7_Case
    /\ call.input.up
    /\ call.pre.accel = 8000
    /\ call.lapCompleted
    /\ car.position = 90000

\* C12: on a vehicle that is not crashed, not invincible and beyond
\* |x| > 2.5, check() returns the one outcome "barrier" (explode above
\* 80 MPH, spin otherwise), also with a hazard in hit range on the segment
C12_BarrierDominates ==
    (~car.crashed /\ car.invincibleTimer <= 0 /\ Abs(car.x) > 2500)
        => check(car, road) =
               Outcome("barrier", IF speedMPH(car) > 80 THEN "explode" ELSE "spin")

\* Beyond the barrier with a hazard in hit range that alone would give
\* another outcome
C12_Witness ==
    /\ ~car.crashed
    /\ car.invincibleTimer <= 0
    /\ Abs(car.x) > 2500
    /\ HazardHit(car, getSegment(road, car.position)) # Null
    /\ HazardHit(car, getSegment(road, car.position)) # check(car, road)

\* C13: crash(severity) leaves the vehicle crashed; a spin keeps 30% of the
\* speed before the call with the timer 1.5, an explosion sets speed 0 with
\* the timer 2.5
C13_CrashSeverity ==
    (call.op = "crash") =>
        /\ ~call.pre.crashed
        /\ car.crashed
        /\ call.severity = "spin"
               => (car.speed = TDiv(call.pre.speed * 3, 10) /\ car.crashTimer = 1500)
        /\ call.severity = "explode"
               => (car.speed = 0 /\ car.crashTimer = 2500)

\* A spin of a moving vehicle
C13_Witness ==
    /\ call.op = "crash"
    /\ call.severity = "spin"
    /\ call.pre.speed > 1000
    /\ car.speed * 10 = call.pre.speed * 3

\* C19: update() returns true exactly when the driving vehicle's advanced
\* position reached or passed trackLength; a reverse wrap and every call on
\* a crashed vehicle return false; with |speed * dt| < trackLength the
\* position after the call lies in [0, trackLength)
C19_LapSignal ==
    (call.op = "update") =>
        LET advanced == call.pre.position + car.speed * call.dt
            length == road.trackLength * 1000
        IN  /\ call.pre.crashed => ~call.lapCompleted
            /\ ~call.pre.crashed => (call.lapCompleted <=> advanced >= length)
            /\ (~call.pre.crashed /\ advanced < 0) => ~call.lapCompleted
            /\ (call.pre.crashed \/ Abs(car.speed * call.dt) < length)
                   => (0 <= car.position /\ car.position < length)

\* A reverse wrap past the start line
C19_Witness ==
    /\ call.op = "update"
    /\ ~call.pre.crashed
    /\ call.pre.position + car.speed * call.dt < 0
    /\ ~call.lapCompleted
    /\ car.position = call.pre.position + car.speed * call.dt + road.trackLength * 1000

\* A forward wrap landing exactly on or beyond the line
C19_ForwardWrap ==
    /\ call.op = "update"
    /\ call.lapCompleted
    /\ car.position < call.pre.position

\* C21: an update(dt) of a crashed vehicle counts crashTimer down by dt,
\* leaves the position unchanged, ignores the input and never increases
\* |x| (x keeps its sign and a non-zero x shrinks); while the vehicle stays
\* crashed the speed is unchanged and spinAngle advances by 8 * dt; the
\* speed changes only on the call where the timer expires
C21_CrashedUpdate ==
    (call.op = "update" /\ call.pre.crashed) =>
        /\ car.crashTimer = call.pre.crashTimer - call.dt
        /\ car.position = call.pre.position
        /\ Abs(car.x) <= Abs(call.pre.x)
        /\ car.x * call.pre.x >= 0
        /\ call.pre.x # 0 => Abs(car.x) < Abs(call.pre.x)
        /\ car.crashed <=> car.crashTimer > 0
        /\ car.crashed => /\ car.speed = call.pre.speed
                          /\ car.spinAngle = call.pre.spinAngle + 8 * call.dt
        /\ ~car.crashed => car.speed = Max(call.pre.speed, 1000)
        /\ \A input \in Inputs :
               update(call.pre, call.dt, road, input).car = car

\* A spun vehicle off the centre line updated with accelerate and steering
\* held: it stays crashed, keeps its speed and position, and moves inward
C21_Witness ==
    /\ call.op = "update"
    /\ call.pre.crashed
    /\ car.crashed
    /\ call.input.up /\ call.input.right
    /\ call.pre.speed > 0
    /\ call.pre.x > 0
    /\ car.x < call.pre.x
    /\ car.position = call.pre.position

C22_OffRoadDrag ==
    /\ call.op = "update"
    /\ ~call.pre.crashed
    /\ ~call.pre.bumpers
    /\ Abs(car.x) > 1000
    /\ car.speed > 1000
    /\ car.speed < beforeBumpers(call.pre, call.dt, road, call.input).speed

\* C28: with bumpers on, |x| <= 1.0 holds after every update, crash and
\* recovery, so check() never returns a barrier outcome
C28_BumpersKeepOnRoad ==
    car.bumpers =>
        /\ Abs(car.x) <= 1000
        /\ LET outcome == check(car, road)
           IN  outcome = Null \/ outcome.type # "barrier"

\* A vehicle with bumpers that crashed at the wall and has recovered: put
\* back at 0.6 from 0.97 * 0.97 of the road edge
C28_Witness ==
    /\ call.op = "update"
    /\ car.bumpers
    /\ call.pre.crashed
    /\ ~car.crashed
    /\ Abs(call.pre.x) > 800
    /\ car.x = 600

-----------------------------------------------------------------------------
(* Specification of Collision.check called on a vehicle at chosen speeds   *)
(* and lateral offsets, on and off the segments that carry a hazard        *)

\* Speeds around the MPH thresholds (speedMPH rounds |speed| / 80): 0, 20,
\* 40, 41, 100, 101 and 145 MPH, forward and in reverse
CheckSpeeds == { 0, 1600, 3160, 3239, 3240, -3239, -3240, 8000, 8039, 8040, 11600 }

\* Lateral offsets around the hit range of a hazard in lane 0 (width 0.3)
\* and of one in lane 2.6, and around the barrier
CheckOffsets == { 0, 449, -449, 450, 1500, 2150, 2151, 2500, 2501 }

\* Positions on segments 0 (no hazard), 2 and 4 (hazard in lane 0) and 7
\* (hazard in lane 2.6)
CheckPositions == { 100000, 500000, 900000, 1500000 }

InitCheck ==
    /\ road = build(RoadInit, TrackShort)
    /\ \E p \in CheckPositions, sp \in CheckSpeeds, lx \in CheckOffsets,
          t \in { 0, 500 }, cr \in BOOLEAN :
         car = [Place(init(CarObject, Null, "asphalt"), p, sp, lx, 0)
                    EXCEPT !.invincibleTimer = t, !.crashed = cr,
                           !.crashTimer = IF cr THEN 1500 ELSE 0]
    /\ call = NoCall
    /\ builds = [id \in TrackIds |-> Undefined]
    /\ buildLog = << >>
    /\ probe = NoProbe
    /\ LoopIdle

\* Collision.check(car, road, canvas)
CallCheck ==
    /\ probe = NoProbe
    /\ \E out \in { check(car, road) } :
         probe' = [op |-> "check", arg |-> car.position, result |-> out]
    /\ UNCHANGED <<road, car, builds, buildLog, call, loopVars>>

NextCheck == CallCheck \/ Return

SpecCheck == InitCheck /\ [][NextCheck]_vars

\* The vehicle is not gated, inside the barrier and in the hit range of the
\* hazard of its segment
InHazardRange ==
    LET segment == getSegment(road, car.position)
    IN  /\ ~car.crashed
        /\ car.invincibleTimer <= 0
        /\ Abs(car.x) <= 2500
        /\ Truthy(segment)
        /\ Truthy(segment.hazard)
        /\ Abs(car.x - segment.hazard.lane) < segment.hazard.width + 150

\* C23: for a vehicle that is not gated, has |x| <= 2.5 and is within
\* hazard.width + 0.15 of the hazard lane of its segment, check() returns
\* the hazard's type with explode above 100 MPH and with spin above 40 and
\* up to 100 MPH; at or below 40 MPH the hazard gives no outcome (check
\* falls through to the scenery tests)
C23_HazardEscalation ==
    (probe.op = "check" /\ InHazardRange) =>
        LET hazard == getSegment(road, car.position).hazard
        IN  /\ speedMPH(car) > 100 => probe.result = Outcome(hazard.type, "explode")
            /\ (speedMPH(car) > 40 /\ speedMPH(car) <= 100)
                   => probe.result = Outcome(hazard.type, "spin")
            /\ speedMPH(car) <= 40
                   => (probe.result = Null \/ probe.result.type = "scenery")

\* A vehicle at exactly 40 MPH in the lane of a hazard: no collision
C23_Witness ==
    /\ probe.op = "check"
    /\ InHazardRange
    /\ speedMPH(car) = 40
    /\ car.speed > 0
    /\ probe.result = Null

\* The other two steps of the ladder at their lower ends: 41 and 101 MPH
C23_SpinAndExplode ==
    /\ probe.op = "check"
    /\ InHazardRange
    /\ \/ speedMPH(car) = 41 /\ probe.result.severity = "spin"
       \/ speedMPH(car) = 101 /\ probe.result.severity = "explode"

-----------------------------------------------------------------------------
(* Specification of Car.init called on the vehicle a race has left behind  *)

MaxInits == 2

\* What a race can leave of a car c: the car as initialised, steering at
\* speed in mid-lap, just spun, just exploded, spinning, in the middle of a
\* crash, and recovered and invincible
LeftOvers(c, driving, spun, recovering) ==
    { c, driving, spun, crash(driving, "explode"),
      updateCrash(spun, 100), recovering, updateCrash(recovering, 1000) }

InitRestart ==
    /\ road = build(RoadInit, TrackShort)
    /\ \E b \in BOOLEAN, carDef \in Cars \cup { Null } :
       \E c \in { init([CarObject EXCEPT !.bumpers = b], carDef, "asphalt") } :
       \E driving \in { update(Place(c, 700000, 6000, 950, 900), 100, road,
                                Input(TRUE, FALSE, FALSE, TRUE)).car } :
       \E spun \in { crash(driving, "spin") } :
       \E recovering \in { updateCrash(spun, 1000) } :
         car \in LeftOvers(c, driving, spun, recovering)
    /\ call = NoCall
    /\ builds = [id \in TrackIds |-> Undefined]
    /\ buildLog = << >>
    /\ probe = NoProbe
    /\ LoopIdle

\* Car.init(carDef, trackType), as Game.startRace calls it
CallInit ==
    /\ call.calls < MaxInits
    /\ \E carDef \in Cars \cup { Null }, trackType \in { "asphalt", "offroad" } :
         car' = init(car, carDef, trackType)
    /\ call' = [NoCall EXCEPT !.op = "init", !.pre = car, !.calls = call.calls + 1]
    /\ UNCHANGED <<road, builds, buildLog, probe, loopVars>>

NextRestart == CallInit

SpecRestart == InitRestart /\ [][NextRestart]_vars

\* C26: after Car.init the vehicle is driving (not crashed) at position 0
\* with x, speed, lateralVelocity, steering, tilt, bounce, crashTimer,
\* spinAngle and invincibleTimer all 0, whatever it was before
C26_InitResets ==
    (call.op = "init") =>
        /\ ~car.crashed
        /\ car.position = 0 /\ car.x = 0 /\ car.speed = 0
        /\ car.lateralVelocity = 0 /\ car.steering = 0 /\ car.tilt = 0
        /\ ~car.bounced
        /\ car.crashTimer = 0 /\ car.spinAngle = 0 /\ car.invincibleTimer = 0
        /\ ~car.explosionTriggered

\* An init of a vehicle left spinning in mid-lap off the centre line
C26_Witness ==
    /\ call.op = "init"
    /\ call.pre.crashed
    /\ call.pre.crashTimer > 0
    /\ call.pre.spinAngle > 0
    /\ call.pre.position > 0
    /\ call.pre.x # 0
    /\ call.pre.steering # 0
    /\ ~car.crashed
    /\ car.position = 0

\* An init of a vehicle left invincible after a recovery
C26_FromInvincible ==
    /\ call.op = "init"
    /\ ~call.pre.crashed
    /\ call.pre.invincibleTimer > 0
    /\ call.pre.speed > 0
    /\ car.invincibleTimer = 0

-----------------------------------------------------------------------------
(* Specification of the steering curve of Car.update alone *)

\* Speed fractions in 1/1000: 0 .. 1
SpeedPercents == 0..1000

InitSteer ==
    /\ road = RoadInit
    /\ car = CarObject
    /\ call = NoCall
    /\ builds = [id \in TrackIds |-> Undefined]
    /\ buildLog = << >>
    /\ probe = NoProbe
    /\ LoopIdle

\* The evaluation of steerCurve in Car.update at one speed fraction
CallSteerCurve ==
    /\ probe = NoProbe
    /\ \E speedPercent \in SpeedPercents :
         probe' = [op |-> "steerCurve", arg |-> speedPercent,
                   result |-> steerCurve(speedPercent)]
    /\ UNCHANGED <<road, car, builds, buildLog, call, loopVars>>

NextSteer == CallSteerCurve \/ Return

SpecSteer == InitSteer /\ [][NextSteer]_vars

\* C17 as stated: the multiplier is 0 at speed fraction 0, strictly positive
\* elsewhere, with a local maximum at a moderate speed fraction
C17_SteerCurveAsStated ==
    (probe.op = "steerCurve") =>
        /\ probe.arg = 0 => probe.result = 0
        /\ probe.arg > 0 => probe.result > 0
        /\ probe.arg \in 250..700 => probe.result = 1000
        /\ probe.result <= 1000

\* C17: the multiplier is 0.3 at speed fraction 0, strictly positive at every
\* speed fraction, rises to its maximum 1.0 at 0.25, keeps it up to 0.7 and
\* falls to 0.82 at 1
C17_SteerCurve ==
    (probe.op = "steerCurve") =>
        /\ probe.arg = 0 => probe.result = 300
        /\ probe.result > 0
        /\ probe.result <= 1000
        /\ probe.arg \in 250..700 => probe.result = 1000
        /\ probe.arg < 250 => probe.result < 1000
        /\ (0 < probe.arg /\ probe.arg <= 250) => steerCurve(probe.arg - 1) <= probe.result
        /\ probe.arg > 700 => steerCurve(probe.arg - 1) >= probe.result
        /\ probe.arg = 1000 => probe.result = 820

\* The multiplier at rest
C17_Witness ==
    /\ probe.op = "steerCurve"
    /\ probe.arg = 0
    /\ probe.result = 300

-----------------------------------------------------------------------------
(* The race loop (main.js) with the keyboard (input.js).  Drawing and the   *)
(* particle effects are not part of the model.                              *)

MaxFrames == 58
MaxKeyEvents == 2

\* The keys that are pressed
KeyNames == { "ArrowUp", "ArrowDown", "ArrowRight", "Enter" }

\* The longest frame time the loop passes on, in ms: Math.min(0.05, ...)
FrameDt == 50

\* The tracks picked in the garage
RaceTracks == { TrackShort, TrackFlat }

\* Input.isPressed(key)
isPressed(k, key) == key \in k

\* The getters up, down, left, right of Input
InputOf(k) ==
    Input(isPressed(k, "ArrowUp") \/ isPressed(k, "w"),
          isPressed(k, "ArrowDown") \/ isPressed(k, "s"),
          isPressed(k, "ArrowLeft") \/ isPressed(k, "a"),
          isPressed(k, "ArrowRight") \/ isPressed(k, "d"))

\* localStorage.getItem(key): the stored value or null
getItem(ls, key) ==
    IF \E e \in ls : e[1] = key THEN (CHOOSE e \in ls : e[1] = key)[2] ELSE Null

\* localStorage.setItem(key, value)
setItem(ls, key, value) == { e \in ls : e[1] # key } \cup { <<key, value>> }

\* The page is loaded: Game.init().  Car.bumpers is the garage's choice.
Init ==
    /\ road = RoadInit
    /\ \E b \in BOOLEAN : car = [CarObject EXCEPT !.bumpers = b]
    /\ call = NoCall
    /\ builds = [id \in TrackIds |-> Undefined]
    /\ buildLog = << >>
    /\ probe = NoProbe
    /\ LoopIdle

\* The keydown handler (a repeated keydown of a held key changes nothing)
KeyDown ==
    /\ events < MaxKeyEvents
    /\ \E key \in KeyNames \ keys : keys' = keys \cup { key }
    /\ events' = events + 1
    /\ UNCHANGED <<road, car, builds, buildLog, probe, call, game, localStorage>>

\* The keyup handler
KeyUp ==
    /\ events < MaxKeyEvents
    /\ \E key \in keys : keys' = keys \ { key }
    /\ events' = events + 1
    /\ UNCHANGED <<road, car, builds, buildLog, probe, call, game, localStorage>>

\* The blur handler
Blur ==
    /\ events < MaxKeyEvents
    /\ keys' = {}
    /\ events' = events + 1
    /\ UNCHANGED <<road, car, builds, buildLog, probe, call, game, localStorage>>

\* Game.startRace(carDef, trackDef), the game object after it
startRace(g, carDef, trackDef) ==
    [g EXCEPT !.selectedCar = carDef, !.selectedTrack = trackDef,
              !.currentLap = 1, !.totalLaps = trackDef.laps, !.raceTime = 0,
              !.lapTimes = << >>, !.lapStartTime = 0, !.totalTime = 0,
              !.isNewBest = FALSE, !.countdown = 3500, !.state = "countdown"]

\* A frame in the garage in which the player confirms a car and a track
GarageFrame ==
    /\ game.state = "garage"
    /\ \E carDef \in Cars, trackDef \in RaceTracks :
         /\ \E built \in { build(road, trackDef) } : road' = built
         /\ car' = init(car, carDef, trackDef.type)
         /\ game' = startRace(game, carDef, trackDef)
         /\ builds' = IF builds[trackDef.id] = Undefined
                      THEN [builds EXCEPT ![trackDef.id] = [segments |-> road'.segments]]
                      ELSE builds
         /\ buildLog' = Append(buildLog, trackDef.id)
    /\ call' = NoCall
    /\ UNCHANGED <<probe, keys, events, localStorage>>

\* Game.updateCountdown(dt)
CountdownFrame ==
    /\ game.state = "countdown"
    /\ game' = [game EXCEPT !.countdown = game.countdown - FrameDt,
                            !.state = IF game.countdown - FrameDt <= -500
                                      THEN "racing" ELSE "countdown"]
    /\ UNCHANGED <<road, car, builds, buildLog, probe, call, keys, events, localStorage>>

\* Game.finishRace(): the game object and the storage after it
finishRace(g, ls) ==
    LET key == <<"best", g.selectedCar.id, g.selectedTrack.id>>
        prevBest == getItem(ls, key)
        better == prevBest = Null \/ g.raceTime < prevBest
    IN  [game |-> [g EXCEPT !.state = "finished", !.totalTime = g.raceTime,
                            !.isNewBest = better \/ g.isNewBest],
         localStorage |-> IF better THEN setItem(ls, key, g.raceTime) ELSE ls]

\* A race clock that runs through the crashes
RaceClockNoPause(g, post, completedLap, ls) ==
    LET timed == [g EXCEPT !.raceTime = g.raceTime + FrameDt]
        lapped == IF completedLap
                  THEN [timed EXCEPT
                           !.lapTimes = Append(timed.lapTimes,
                                               timed.raceTime - timed.lapStartTime),
                           !.lapStartTime = timed.raceTime,
                           !.currentLap = timed.currentLap + 1]
                  ELSE timed
    IN  IF completedLap /\ lapped.currentLap > lapped.totalLaps
        THEN finishRace(lapped, ls)
        ELSE [game |-> lapped, localStorage |-> ls]

\* A race that finishes when the last lap begins
RaceClockEarlyFinish(g, post, completedLap, ls) ==
    LET timed == IF ~post.crashed
                 THEN [g EXCEPT !.raceTime = g.raceTime + FrameDt]
                 ELSE g
        lapped == IF completedLap
                  THEN [timed EXCEPT
                           !.lapTimes = Append(timed.lapTimes,
                                               timed.raceTime - timed.lapStartTime),
                           !.lapStartTime = timed.raceTime,
                           !.currentLap = timed.currentLap + 1]
                  ELSE timed
    IN  IF completedLap /\ lapped.currentLap >= lapped.totalLaps
        THEN finishRace(lapped, ls)
        ELSE [game |-> lapped, localStorage |-> ls]

\* Game.updateRacing(dt) after the physics and the collision check: the
\* race clock, the lap bookkeeping and the finish.  post is the car after
\* update(), check() and crash().
RaceClock(g, post, completedLap, ls) ==
    LET timed == IF ~post.crashed
                 THEN [g EXCEPT !.raceTime = g.raceTime + FrameDt]
                 ELSE g
        lapped == IF completedLap
                  THEN [timed EXCEPT
                           !.lapTimes = Append(timed.lapTimes,
                                               timed.raceTime - timed.lapStartTime),
                           !.lapStartTime = timed.raceTime,
                           !.currentLap = timed.currentLap + 1]
                  ELSE timed
    IN  IF completedLap /\ lapped.currentLap > lapped.totalLaps
        THEN finishRace(lapped, ls)
        ELSE [game |-> lapped, localStorage |-> ls]

\* A frame that draws before it moves the car
FrameStepsRenderFirst(collision, finished) ==
    (IF finished THEN << >> ELSE << "render" >>)
    \o << "update", "check" >>
    \o (IF collision # Null THEN << "crash" >> ELSE << >>)

\* The calls Game.updateRacing makes, in their order: the finishing frame
\* returns after finishRace(), before the drawing
FrameSteps(collision, finished) ==
    << "update", "check" >>
    \o (IF collision # Null THEN << "crash" >> ELSE << >>)
    \o (IF finished THEN << "finishRace" >> ELSE << "render" >>)

\* A frame that takes the hazard under the car off the road
RoadAfterFrameHazardCleared(r, c) ==
    LET i == FloorDiv(c.position, segmentLength * 1000) + 1
    IN  IF i \in 1..Len(r.segments)
        THEN [r EXCEPT !.segments[i].hazard = Undefined]
        ELSE r

\* The Road after a frame: Car.update, Collision.check and Renderer.render
\* read it and assign nothing to it
RoadAfterFrame(r, c) == r

\* Game.updateRacing(dt): a frame of the loop in the racing state
RacingFrame ==
    /\ game.state = "racing"
    /\ call.calls < MaxFrames
    /\ \E updated \in { update(car, FrameDt, road, InputOf(keys)) } :
       \E collision \in { check(updated.car, road) } :
       \E post \in { IF collision # Null
                     THEN crash(updated.car, collision.severity)
                     ELSE updated.car } :
       \E out \in { RaceClock(game, post, updated.lapCompleted, localStorage) } :
         /\ car' = post
         /\ game' = out.game
         /\ localStorage' = out.localStorage
         /\ road' = RoadAfterFrame(road, post)
         /\ call' = [op |-> "frame", dt |-> FrameDt, input |-> InputOf(keys),
                     severity |-> IF collision # Null THEN collision.severity
                                  ELSE call.severity,
                     lapCompleted |-> updated.lapCompleted,
                     pre |-> car, mid |-> updated.car, collision |-> collision,
                     steps |-> FrameSteps(collision, out.game.state = "finished"),
                     rendered |-> IF out.game.state = "finished" THEN Undefined
                                  ELSE post,
                     calls |-> call.calls + 1,
                     sinceCrash |-> IF car.crashed THEN call.sinceCrash + FrameDt
                                    ELSE 0,
                     sinceRecovery |->
                         SinceRecovery(call.sinceRecovery, car, updated.car, FrameDt),
                     odometer |-> Odometer(call.odometer, car, updated.car, FrameDt)]
    /\ UNCHANGED <<builds, buildLog, probe, keys, events>>

\* Game.updateFinished(dt)
FinishedFrame ==
    /\ game.state = "finished"
    /\ IF isPressed(keys, "Enter")
       THEN game' = [game EXCEPT !.state = "garage"] /\ keys' = {}
       ELSE UNCHANGED <<game, keys>>
    /\ UNCHANGED <<road, car, builds, buildLog, probe, call, events, localStorage>>

Next ==
    \/ KeyDown
    \/ KeyUp
    \/ Blur
    \/ GarageFrame
    \/ CountdownFrame
    \/ RacingFrame
    \/ FinishedFrame

Spec == Init /\ [][Next]_vars

-----------------------------------------------------------------------------
(* Claims about the race loop *)

\* C10: in the race loop crash() is only ever invoked on a vehicle that is
\* not crashed and not invincible
C10_CrashOnlyWhenDriving ==
    (call.op = "frame" /\ call.collision # Null)
        => (~call.mid.crashed /\ call.mid.invincibleTimer <= 0)

\* A racing frame has invoked crash()
C10_CrashInvoked ==
    /\ call.op = "frame"
    /\ call.collision # Null
    /\ car.crashed

\* A racing frame in which the recovered vehicle runs over a hazard fast
\* enough to spin, still invincible, and crash() is not invoked
C10_Witness ==
    /\ call.op = "frame"
    /\ call.mid.invincibleTimer > 0
    /\ HazardHit(call.mid, getSegment(road, call.mid.position)) # Null
    /\ call.collision = Null
    /\ ~car.crashed

\* C11 as stated: every racing frame runs update, then check (and crash on
\* a hit), then render
C11_FrameOrderAsStated ==
    (call.op = "frame") =>
        /\ call.steps \in { << "update", "check", "render" >>,
                            << "update", "check", "crash", "render" >> }
        /\ call.rendered = car

\* C11: every racing frame runs update, then check (and crash exactly on a
\* hit), then render of the car as they left it; only the frame that
\* completes the last lap ends with finishRace and does not render
C11_FrameOrder ==
    (call.op = "frame") =>
        /\ call.steps[1] = "update"
        /\ call.steps[2] = "check"
        /\ (call.collision # Null) <=> (call.steps[3] = "crash")
        /\ Len(call.steps) = (IF call.collision # Null THEN 4 ELSE 3)
        /\ IF call.lapCompleted /\ game.currentLap > game.totalLaps
           THEN /\ call.steps[Len(call.steps)] = "finishRace"
                /\ game.state \in { "finished", "garage" }
           ELSE /\ call.steps[Len(call.steps)] = "render"
                /\ call.rendered = car
                /\ game.state = "racing"

\* The frame that completes the last lap
C11_Witness ==
    /\ call.op = "frame"
    /\ game.state = "finished"
    /\ call.steps = << "update", "check", "finishRace" >>


\* C14: between two builds no step changes the Road
C14_TrackReadOnly ==
    [][buildLog' = buildLog => road' = road]_vars

\* A frame with a hit on a hazard has run and the segments are as built
C14_Witness ==
    /\ call.op = "frame"
    /\ call.collision # Null
    /\ call.collision.type = "moose"
    /\ road.segments = builds[game.selectedTrack.id].segments
    /\ road.totalSegments = Len(road.segments)
    /\ road.trackLength = Len(road.segments) * segmentLength

\* C20: a recovery sets invincibleTimer to 1.0, only driving updates count
\* it down, and crash() is not invoked before driving updates of 1.0 s in
\* total have run since the recovery
C20_InvincibleAfterRecovery ==
    (call.op = "frame") =>
        /\ (call.pre.crashed /\ ~call.mid.crashed)
               => (call.mid.invincibleTimer = 1000 /\ call.collision = Null)
        /\ (call.pre.crashed /\ call.mid.crashed)
               => call.mid.invincibleTimer = call.pre.invincibleTimer
        /\ ~call.pre.crashed
               => call.mid.invincibleTimer =
                      (IF call.pre.invincibleTimer > 0
                       THEN call.pre.invincibleTimer - call.dt
                       ELSE call.pre.invincibleTimer)
        /\ call.collision # Null
               => /\ call.mid.invincibleTimer <= 0
                  /\ call.sinceRecovery >= 0 => call.sinceRecovery >= 1000

\* The vehicle crashes again after its invincibility has run out
C20_Witness ==
    /\ call.op = "frame"
    /\ call.collision # Null
    /\ call.sinceRecovery >= 1000
    /\ car.crashed

\* C27: the race clock pauses during crashes: a racing tick that ends with
\* the vehicle crashed leaves raceTime unchanged, and a racing tick that
\* ends with the vehicle driving adds exactly dt to it
C27_ClockPauses ==
    [][(game.state = "racing" /\ call'.calls = call.calls + 1) =>
          IF car'.crashed THEN game'.raceTime = game.raceTime
          ELSE game'.raceTime = game.raceTime + FrameDt]_vars

\* A tick in the middle of a crash, after the clock had run
C27_Witness ==
    /\ call.op = "frame"
    /\ call.pre.crashed
    /\ car.crashed
    /\ game.raceTime > 0
    /\ game.state = "racing"

\* The tick of the collision itself: the vehicle drove during update() and
\* ends the tick crashed
C27_CrashTick ==
    /\ call.op = "frame"
    /\ ~call.pre.crashed
    /\ call.collision # Null
    /\ car.crashed

\* C29: a lap is counted only for a full forward lap: at every lapCompleted
\* signal of a race the net forward travel since the start (the sum of
\* speed * dt over the driving updates) is at least trackLength for each
\* lap signalled so far, also when the vehicle reverses across the start
\* line
C29_FullForwardLap ==
    (call.op = "frame" /\ call.lapCompleted)
        => call.odometer >= (game.currentLap - 1) * road.trackLength * 1000

\* The sum of the entries of Game.lapTimes
RECURSIVE SumOfLapTimes(_)
SumOfLapTimes(lapTimes) ==
    IF lapTimes = << >> THEN 0
    ELSE Head(lapTimes) + SumOfLapTimes(Tail(lapTimes))

\* The lap bookkeeping of a race that is running or over
LapBooks ==
    game.state \in {"racing", "finished"} =>
        /\ Len(game.lapTimes) = game.currentLap - 1
        /\ SumOfLapTimes(game.lapTimes) = game.lapStartTime
        /\ game.state = "finished" <=> Len(game.lapTimes) >= game.totalLaps
        /\ game.state = "finished" =>
              /\ Len(game.lapTimes) = game.totalLaps
              /\ game.totalTime = SumOfLapTimes(game.lapTimes)

\* The race is over from the tick that completes the lap totalLaps, and
\* from no other
FinishTick ==
    (game.state # "finished" /\ game'.state = "finished") <=>
        /\ game.state = "racing"
        /\ call'.calls = call.calls + 1
        /\ call'.lapCompleted
        /\ Len(game.lapTimes) = game.totalLaps - 1
        /\ Len(game'.lapTimes) = game.totalLaps

\* C30: in every racing or finished state lapTimes has currentLap - 1
\* entries and their sum is lapStartTime; the race becomes finished on the
\* tick on which the completed laps reach totalLaps and on no other, and
\* totalTime is then the sum of lapTimes.
C30_LapBookkeeping == []LapBooks /\ [][FinishTick]_vars

C30_Witness ==
    /\ game.state = "finished"
    /\ game.totalLaps = 2
    /\ Len(game.lapTimes) = 2
    /\ game.lapTimes[1] > 0 /\ game.lapTimes[2] > 0
    /\ game.totalTime = game.lapTimes[1] + game.lapTimes[2]

-----------------------------------------------------------------------------
(* Renderer (renderer.js): the projection pass of render().  Depths z are   *)
(* in 1/1000 world unit, the accumulators in 1/1000, screen coordinates in  *)
(* 1/10 pixel, scale in 1/10^9; the depth enters the scale in whole world   *)
(* units (rounded up).  The drawing pass writes the canvas only.            *)

cameraHeight == 1200
drawDistance == 200
roadWidth == 2000

\* cameraDepth = 1 / Math.tan(50 degrees) = 0.8391, in 1/10000
cameraDepth == 8391

\* canvas.width and canvas.height
canvasWidth == 960
canvasHeight == 600

\* a / z for a depth z in 1/1000 world unit
JsDiv(a, z) ==
    IF z = 0 THEN Infinity
    ELSE IF z > 0 THEN TDiv(a, (z + 999) \div 1000)
    ELSE TDiv(a, -(((-z) + 999) \div 1000))

\* value * this.cameraDepth
TimesCameraDepth(value) == TDiv(value * cameraDepth, 10000)

\* A screenX that measures the car from the left road edge
ScreenXFromRoadEdge(curveAccum, x, z) ==
    IF z = 0 THEN Infinity
    ELSE canvasWidth * 5
         + JsDiv(TimesCameraDepth(TDiv(curveAccum - (x + 1000) * roadWidth, 1000))
                 * canvasWidth * 5, z)

\* screenX = w / 2 + (curveAccum - car.x * this.roadWidth) * scale * w / 2
ScreenX(curveAccum, x, z) ==
    IF z = 0 THEN Infinity
    ELSE canvasWidth * 5
         + JsDiv(TimesCameraDepth(TDiv(curveAccum - x * roadWidth, 1000))
                 * canvasWidth * 5, z)

\* screenY = h / 2 + (this.cameraHeight - hillAccum) * scale * h / 2
ScreenY(hillAccum, z) ==
    IF z = 0 THEN Infinity
    ELSE canvasHeight * 5
         + JsDiv(TimesCameraDepth(cameraHeight - TDiv(hillAccum, 1000))
                 * canvasHeight * 5, z)

\* screenW = this.roadWidth * scale * w / 2
ScreenW(z) == JsDiv(TimesCameraDepth(roadWidth) * canvasWidth * 5, z)

\* A depth test that lets depth 0 through
TooNearBelowZero(segZ) == segZ < 0

\* if (segZ <= 0) continue
TooNear(segZ) == segZ <= 0

\* The pass before its first iteration
ProjectStart == [curveAccum |-> 0, hillAccum |-> 0, projected |-> << >>, iterations |-> 0]

\* An iteration that advances the accumulators before it uses them
ProjectStepAccumulateFirst(r, c, st, i) ==
    LET baseSegmentIndex == FloorDiv(c.position, segmentLength * 1000)
        baseOffset == JsRem(c.position, segmentLength * 1000)
        segIndex == baseSegmentIndex + i
        seg == getSegmentByIndex(r, segIndex)
        segZ == i * segmentLength * 1000 - baseOffset
        counted == [st EXCEPT !.iterations = st.iterations + 1]
        curveAccum == st.curveAccum + seg.curve * segmentLength
        hillAccum == st.hillAccum + seg.hill * 30
    IN  IF ~Truthy(seg) THEN counted
        ELSE IF TooNear(segZ) THEN counted
        ELSE [counted EXCEPT
                 !.projected = Append(st.projected,
                     [screenX |-> ScreenX(curveAccum, c.x, segZ),
                      screenY |-> ScreenY(hillAccum, segZ),
                      screenW |-> ScreenW(segZ),
                      scale |-> JsDiv(cameraDepth * 100000, segZ),
                      segIndex |-> JsRem(segIndex, r.totalSegments),
                      segment |-> seg,
                      z |-> segZ]),
                 !.curveAccum = curveAccum,
                 !.hillAccum = hillAccum]

\* One iteration of the first pass of Renderer.render
ProjectStep(r, c, st, i) ==
    LET baseSegmentIndex == FloorDiv(c.position, segmentLength * 1000)
        baseOffset == JsRem(c.position, segmentLength * 1000)
        segIndex == baseSegmentIndex + i
        seg == getSegmentByIndex(r, segIndex)
        segZ == i * segmentLength * 1000 - baseOffset
        counted == [st EXCEPT !.iterations = st.iterations + 1]
    IN  IF ~Truthy(seg) THEN counted
        ELSE IF TooNear(segZ) THEN counted
        ELSE [counted EXCEPT
                 !.projected = Append(st.projected,
                     [screenX |-> ScreenX(st.curveAccum, c.x, segZ),
                      screenY |-> ScreenY(st.hillAccum, segZ),
                      screenW |-> ScreenW(segZ),
                      scale |-> JsDiv(cameraDepth * 100000, segZ),
                      segIndex |-> JsRem(segIndex, r.totalSegments),
                      segment |-> seg,
                      z |-> segZ]),
                 !.curveAccum = st.curveAccum + seg.curve * segmentLength,
                 !.hillAccum = st.hillAccum + seg.hill * 30]

\* for (let i = lo; i < hi; i++), the iterations in their order
RECURSIVE ProjectRange(_, _, _, _, _)
ProjectRange(r, c, st, lo, hi) ==
    IF hi <= lo THEN st
    ELSE IF hi = lo + 1 THEN ProjectStep(r, c, st, lo)
    ELSE LET mid == (lo + hi) \div 2
             nearer == ProjectRange(r, c, st, lo, mid)
         IN  \* the nearer iterations complete before the farther ones start
             IF nearer.iterations = st.iterations + (mid - lo)
             THEN ProjectRange(r, c, nearer, mid, hi)
             ELSE nearer

\* The first pass of Renderer.render(road, car, time):
\* for (let i = 0; i < this.drawDistance; i++)
project(r, c) == ProjectRange(r, c, ProjectStart, 0, drawDistance)

\* Lateral offsets of the car handed to render, in 1/1000
RenderOffsets == { 0, -1000, 500, 2600 }

\* A built track and a car anywhere in [0, trackLength), segment boundaries
\* and the last segment before the wrap included
InitRender ==
    /\ \E trackDef \in Tracks :
         \E built \in { build(RoadInit, trackDef) } :
           /\ road = built
           /\ \E k \in 0..(built.totalSegments - 1), f \in InSegment, lx \in RenderOffsets :
                car = Place(CarObject, k * segmentLength * 1000 + f, 0, lx, 0)
    /\ call = NoCall
    /\ builds = [id \in TrackIds |-> Undefined]
    /\ buildLog = << >>
    /\ probe = NoProbe
    /\ LoopIdle

\* Renderer.render(road, car, time), its projection pass
CallRender ==
    /\ probe = NoProbe
    /\ \E out \in { project(road, car) } :
         probe' = [op |-> "render", arg |-> car.position, result |-> out]
    /\ UNCHANGED <<road, car, builds, buildLog, call, loopVars>>

NextRender == CallRender \/ Return

SpecRender == InitRender /\ [][NextRender]_vars

\* C15: for a built track and a car position in [0, trackLength), the
\* projection pass runs exactly drawDistance iterations and stores only
\* entries of depth z > 0 (the iterations of depth <= 0 are skipped before
\* the scale is computed), so no stored value comes from a division by zero
C15_ProjectionBounded ==
    (probe.op = "render") =>
        /\ car.position >= 0 /\ car.position < road.trackLength * 1000
        /\ probe.result.iterations = drawDistance
        /\ Len(probe.result.projected) < drawDistance
        /\ \A k \in 1..Len(probe.result.projected) :
             LET p == probe.result.projected[k]
             IN  /\ p.z > 0
                 /\ IsFinite(p.scale) /\ p.scale > 0
                 /\ IsFinite(p.screenX) /\ IsFinite(p.screenY)
                 /\ IsFinite(p.screenW)

\* A pass from exactly a segment boundary, where the nearest iteration has
\* depth 0 and is skipped, and one that wraps around the end of the track
C15_Witness ==
    /\ probe.op = "render"
    /\ JsRem(car.position, segmentLength * 1000) = 0
    /\ car.position = (road.totalSegments - 1) * segmentLength * 1000
    /\ Len(probe.result.projected) = drawDistance - 1
    /\ probe.result.projected[1].z = segmentLength * 1000
    /\ probe.result.projected[1].segIndex = 0

\* Every segment of the road is straight and level
StraightFlat(r) ==
    /\ r.totalSegments > 0
    /\ \A k \in 1..Len(r.segments) : r.segments[k].curve = 0 /\ r.segments[k].hill = 0

\* C16: on a straight, flat track with the car centred (x = 0), every
\* projected segment has the same screenX, the horizontal centre of the
\* canvas, at every car position
C16_NoDrift ==
    (probe.op = "render" /\ StraightFlat(road) /\ car.x = 0) =>
        \A k \in 1..Len(probe.result.projected) :
            probe.result.projected[k].screenX = canvasWidth * 5

\* A centred car inside a segment of a straight flat track, a full window
\* projected
C16_Witness ==
    /\ probe.op = "render"
    /\ StraightFlat(road)
    /\ car.x = 0
    /\ JsRem(car.position, segmentLength * 1000) # 0
    /\ Len(probe.result.projected) = drawDistance - 1

\* The sums of curve * segmentLength and hill * 30 before an entry, and
\* whether every entry so far used the sums before it
SumsStart == [curveSum |-> 0, hillSum |-> 0, ok |-> TRUE]

\* Entry k against the sums of the entries before it
UsesSumsAt(projected, x, acc, k) ==
    LET p == projected[k]
    IN  [curveSum |-> acc.curveSum + p.segment.curve * segmentLength,
         hillSum |-> acc.hillSum + p.segment.hill * 30,
         ok |-> /\ acc.ok
                /\ p.screenX = ScreenX(acc.curveSum, x, p.z)
                /\ p.screenY = ScreenY(acc.hillSum, p.z)]

\* The entries lo .. hi - 1 in their order
RECURSIVE UsesSumsBefore(_, _, _, _, _)
UsesSumsBefore(projected, x, acc, lo, hi) ==
    IF hi <= lo THEN acc
    ELSE IF hi = lo + 1 THEN UsesSumsAt(projected, x, acc, lo)
    ELSE LET mid == (lo + hi) \div 2
             nearer == UsesSumsBefore(projected, x, acc, lo, mid)
         IN  IF nearer.ok THEN UsesSumsBefore(projected, x, nearer, mid, hi)
             ELSE nearer

\* C18: the accumulators start at 0 and advance only after use: the screen
\* X/Y of each projected segment uses the sum of curve * segmentLength
\* (resp. hill * 30) over the projected segments strictly nearer, never its
\* own contribution
C18_AccumulateAfterUse ==
    (probe.op = "render") =>
        UsesSumsBefore(probe.result.projected, car.x, SumsStart, 1,
                       Len(probe.result.projected) + 1).ok

\* A pass whose nearest projected segment is curved and climbing, so that
\* its own contribution would move its screen position
C18_Witness ==
    /\ probe.op = "render"
    /\ Len(probe.result.projected) > 1
    /\ probe.result.projected[1].segment.curve # 0
    /\ probe.result.projected[1].segment.hill # 0
    /\ probe.result.projected[1].screenX
         # ScreenX(probe.result.projected[1].segment.curve * segmentLength, car.x,
                   probe.result.projected[1].z)
    /\ probe.result.projected[1].screenY
         # ScreenY(probe.result.projected[1].segment.hill * 30,
                   probe.result.projected[1].z)

=============================================================================
